---- MODULE Spec2Model ----
(***************************************************************************)
(* Linkwatch: the checking engine (internal/checker) over the              *)
(* registry/results store (internal/storage), and the HTTP API             *)
(* (internal/api) in front of the store.                                   *)
(*                                                                         *)
(* The scheduler goroutine (run), the per-cycle dispatcher                 *)
(* (checkAllTargets), the workers (checkTarget, getHostSemaphore) and the  *)
(* HTTP probe (performCheck) are modelled step by step; every Go select    *)
(* with more than one ready case is a nondeterministic choice.             *)
(***************************************************************************)
EXTENDS Integers, Sequences, FiniteSets, TLC

\* ------------------------------------------------------------------ bounds
\* Config.MaxConcurrency of the modelled deployment.
MaxConcurrency == 2
\* Number of targets in the store when the checker is constructed.
NumTargets == 3
\* Check cycles the scheduler may start.
MaxCycles == 2
\* Rows the check_results table can take before inserts fail.
MaxResults == 1

\* ------------------------------------------------------- program constants
\* performCheck with the loop bound off by one.
maxAttemptsOffByOne == 3 + 1
maxAttempts == 3
InitialBackoff == 200
\* performCheck, line 208: the first status code that is retried.
RetryFrom == 500

\* ------------------------------------------------------------------- URLs
\* A URL is [scheme, host, port, path]; the path "%zz" is an invalid percent
\* escape, on which url.Parse (and so http.NewRequestWithContext) fails.
BadPath == "%zz"

URL(scheme, host, port, path) ==
    [scheme |-> scheme, host |-> host, port |-> port, path |-> path]

\* url.Parse(u): ok is FALSE when parsing fails; Host is host[:port].
UrlParse(u) ==
    [ok |-> u.path # BadPath, Host |-> <<u.host, u.port>>]

\* The URL of the i-th stored target: two targets out of three share a host.
Paths == <<"/1", "/2", "/3", "/4", "/5", "/6">>
TargetURL(i) ==
    URL("https", IF i % 3 = 0 THEN "b.com" ELSE "a.com", "", Paths[i])

\* models.Target
Target(i) == [ID |-> i, URL |-> TargetURL(i)]

\* URLs handed to performCheck when it is called directly.
ProbeURLs == {URL("http", "a.com", "", "/1"), URL("http", "a.com", "", BadPath)}

\* ----------------------------------------------------------------- errors
\* A Go error value: its dynamic type, what it reports, and a code if any.
Err(type, cause, code) == [type |-> type, cause |-> cause, code |-> code]
NilErr == Err("nil", "nil", 0)

\* err.Error(): the message keeps the cause, the dynamic type is lost.
ErrorString(e) == [cause |-> e.cause, code |-> e.code]
NilString == [cause |-> "nil", code |-> 0]
ContextCancelled == [cause |-> "context cancelled", code |-> 0]

\* Every error returned by http.Client.Do is a *url.Error wrapping the cause.
UrlError(cause) == Err("*url.Error", cause, 0)
\* fmt.Errorf("server error: %d", code)
ServerError(code) == Err("*errors.errorString", "server error", code)

\* What one HTTP exchange can end in: a response or a transport failure.
Resp(code) == [kind |-> "resp", code |-> code, cause |-> "-"]
Fail(cause) == [kind |-> "err", code |-> 0, cause |-> cause]

Codes == {200, 404, 500, 503}
NetworkCauses == {"*net.OpError", "*net.DNSError"}
OtherCauses == {"x509.UnknownAuthorityError"}
Canceled == "context canceled"
\* A response that redirects (302 with a Location), and the error of
\* CheckRedirect, New, line 45.
Redirect == [kind |-> "redirect", code |-> 302, cause |-> "-"]
RedirectError == "stopped after 5 redirects"

\* The outcomes of the environment in the scheduler runs and in direct probes.
SchedulerOutcomes == {Resp(200), Resp(500)}
ProbeOutcomes ==
    {Resp(c) : c \in Codes} \cup {Fail(x) : x \in NetworkCauses \cup OtherCauses}
        \cup {Redirect}

VARIABLES
    cancelled,   \* ctx.Done() is closed
    tick,        \* ticker.C holds a tick (channel of capacity 1)
    runPc,       \* position of the scheduler goroutine
    cycle,       \* number of checkAllTargets invocations so far
    snapshot,    \* targets of the current cycle (GetAllTargets)
    idx,         \* next index of snapshot to dispatch
    sem,         \* per cycle: slots taken in that cycle's sem channel
    wg,          \* per cycle: counter of that cycle's WaitGroup
    hostSems,    \* Checker.hostSems: host -> gate
    gates,       \* per gate (a chan struct{} of capacity 1): tokens inside
    workers,     \* live goroutines running checkTarget / performCheck
    server,      \* outcomes the probed servers may produce
    targets,     \* table targets
    results,     \* table check_results, in insertion order
    keys,        \* table idempotency_keys: key -> [target_id, created_at]
    clock,       \* the last reading of time.Now()
    txs,         \* CreateTarget calls between their SELECTs and their INSERT
    calls,       \* the POST /v1/targets requests answered so far, in order
    pages,       \* the pages a client has fetched by following page tokens
    reply,       \* the last answer of a read operation of the store
    canon,       \* a URL and the results of canonicalizing it
    database     \* what the database may do: whether a statement succeeds
                 \* (answers), the rows check_results can take (rows), and
                 \* the targets whose check results it rejects (refused)

vars == <<cancelled, tick, runPc, cycle, snapshot, idx, sem, wg, hostSems,
          gates, workers, server, targets, results, keys, clock, txs, calls,
          pages, reply, canon, database>>

\* What the registry and its clients hold besides the two tables above.
storeVars == <<keys, clock, txs, calls, pages, reply, canon, database>>

\* Migrate, lines 21-57, on a fresh database: the tables are empty; no
\* request has been made.
StoreInit ==
    /\ keys = <<>>
    /\ clock = 0
    /\ txs = <<>>
    /\ calls = <<>>
    /\ pages = <<>>
    /\ reply = <<>>
    /\ canon = <<>>
    /\ database = [answers |-> BOOLEAN, rows |-> MaxResults,
                   refused |-> {}]

schedVars == <<runPc, cycle, snapshot, idx>>

\* ---------------------------------------------------------------- workers
\* The state of performCheck at entry (lines 166-171).
NewProbe(c, t, pc) ==
    [cycle |-> c, target |-> t, pc |-> pc,
     host |-> <<"", "">>, hostSem |-> 0,
     attempt |-> 0, backoff |-> InitialBackoff,
     status |-> 0, lastErr |-> NilErr, error |-> NilString,
     requests |-> 0, tries |-> 0, outcomes |-> <<>>, sleeps |-> <<>>,
     via |-> 0]

Workers == DOMAIN workers

AllTargets == [i \in 1..NumTargets |-> Target(i)]

Init ==
    /\ cancelled = FALSE
    /\ tick = FALSE
    /\ runPc = "idle"
    /\ cycle = 0
    /\ snapshot = <<>>
    /\ idx = 0
    /\ sem = [c \in 1..MaxCycles |-> 0]
    /\ wg = [c \in 1..MaxCycles |-> 0]
    /\ hostSems = <<>>
    /\ gates = <<>>
    /\ workers = <<>>
    /\ server = SchedulerOutcomes
    /\ \E n \in {0, NumTargets} : targets = SubSeq(AllTargets, 1, n)
    /\ results = <<>>
    /\ StoreInit

\* ----------------------------------------------------------- environment
\* main: cancel() on SIGINT/SIGTERM, which main calls only after Start; a
\* caller of performCheck may cancel its ctx at any time.
Cancel ==
    /\ ~cancelled
    /\ runPc # "idle" \/ Workers # {}
    /\ cancelled' = TRUE
    /\ UNCHANGED <<storeVars, tick, schedVars, sem, wg, hostSems, gates, workers, server,
                   targets, results>>

\* The ticker of run delivers a tick; a tick not yet consumed is kept, further
\* ones are dropped.
Tick ==
    /\ runPc \notin {"idle", "stopped"}
    /\ ~tick
    /\ tick' = TRUE
    /\ UNCHANGED <<storeVars, cancelled, schedVars, sem, wg, hostSems, gates, workers,
                   server, targets, results>>

\* -------------------------------------------------------------- scheduler
\* Start/run up to the first call of checkAllTargets.
Start ==
    /\ runPc = "idle"
    /\ runPc' = "cycle"
    /\ cycle' = 1
    /\ UNCHANGED <<storeVars, cancelled, tick, snapshot, idx, sem, wg, hostSems, gates,
                   workers, server, targets, results>>

\* checkAllTargets with a failed GetAllTargets ending the scheduler.
GetAllTargetsOrStop ==
    /\ runPc = "cycle"
    /\ \E ok \in database.answers :
         IF ~ok \/ Len(targets) = 0
         THEN /\ runPc' = "stopped"
              /\ UNCHANGED <<storeVars, snapshot, idx>>
         ELSE /\ runPc' = "dispatch"
              /\ snapshot' = targets
              /\ idx' = 1
    /\ UNCHANGED <<storeVars, cancelled, tick, cycle, sem, wg, hostSems, gates, workers,
                   server, targets, results>>

\* checkAllTargets, lines 75-89: the snapshot, the early returns, a fresh sem
\* channel and WaitGroup.
GetAllTargets ==
    /\ runPc = "cycle"
    /\ \E ok \in database.answers :
         IF ~ok \/ Len(targets) = 0
         THEN /\ runPc' = "select"
              /\ UNCHANGED <<storeVars, snapshot, idx>>
         ELSE /\ runPc' = "dispatch"
              /\ snapshot' = targets
              /\ idx' = 1
    /\ UNCHANGED <<storeVars, cancelled, tick, cycle, sem, wg, hostSems, gates, workers,
                   server, targets, results>>

\* A Go select is one atomic step. With a case ready it takes one of the
\* ready cases; with none ready the goroutine blocks, and the first channel
\* operation that can complete one of its cases wakes it with that case:
\* closing ctx.Done() wakes every goroutine blocked on it, and a receive from
\* a full channel hands its slot to a sender blocked on that channel.

\* checkAllTargets, lines 92-94: the select takes <-ctx.Done(), at once or
\* woken by the cancellation, and returns without waiting for the workers.
DispatchCancelled ==
    /\ runPc \in {"dispatch", "blocked"}
    /\ cancelled
    /\ runPc' = "select"
    /\ UNCHANGED <<storeVars, cancelled, tick, cycle, snapshot, idx, sem, wg, hostSems,
                   gates, workers, server, targets, results>>

\* The loop of lines 90-103 stepping over the target after the one it spawns
\* a worker for.
DispatchSpawnSkipsNext ==
    /\ runPc = "dispatch"
    /\ sem[cycle] < MaxConcurrency
    /\ sem' = [sem EXCEPT ![cycle] = @ + 1]
    /\ wg' = [wg EXCEPT ![cycle] = @ + 1]
    /\ workers' = workers @@
           (<<cycle, snapshot[idx].ID>> :> NewProbe(cycle, snapshot[idx], "start"))
    /\ idx' = idx + 2
    /\ runPc' = IF idx + 1 >= Len(snapshot) THEN "wait" ELSE "dispatch"
    /\ UNCHANGED <<storeVars, cancelled, tick, cycle, snapshot, hostSems, gates, server,
                   targets, results>>

\* checkAllTargets, lines 95-101: the select takes sem <- struct{}{}, then
\* wg.Add(1) and the go statement; after the last target the loop ends.
DispatchSpawn ==
    /\ runPc = "dispatch"
    /\ sem[cycle] < MaxConcurrency
    /\ sem' = [sem EXCEPT ![cycle] = @ + 1]
    /\ wg' = [wg EXCEPT ![cycle] = @ + 1]
    /\ workers' = workers @@
           (<<cycle, snapshot[idx].ID>> :> NewProbe(cycle, snapshot[idx], "start"))
    /\ idx' = idx + 1
    /\ runPc' = IF idx = Len(snapshot) THEN "wait" ELSE "dispatch"
    /\ UNCHANGED <<storeVars, cancelled, tick, cycle, snapshot, hostSems, gates, server,
                   targets, results>>

\* checkAllTargets, lines 91-95: no case of the select is ready (sem is full
\* and ctx is not cancelled), the dispatcher blocks.
DispatchBlock ==
    /\ runPc = "dispatch"
    /\ sem[cycle] = MaxConcurrency
    /\ ~cancelled
    /\ runPc' = "blocked"
    /\ UNCHANGED <<storeVars, cancelled, tick, cycle, snapshot, idx, sem, wg, hostSems,
                   gates, workers, server, targets, results>>

\* checkAllTargets, lines 96-101, for a dispatcher that was handed its slot
\* while blocked: wg.Add(1) and the go statement.
DispatchGo ==
    /\ runPc = "spawn"
    /\ wg' = [wg EXCEPT ![cycle] = @ + 1]
    /\ workers' = workers @@
           (<<cycle, snapshot[idx].ID>> :> NewProbe(cycle, snapshot[idx], "start"))
    /\ idx' = idx + 1
    /\ runPc' = IF idx = Len(snapshot) THEN "wait" ELSE "dispatch"
    /\ UNCHANGED <<storeVars, cancelled, tick, cycle, snapshot, sem, hostSems, gates,
                   server, targets, results>>

\* checkAllTargets, line 105: wg.Wait() returns, the cycle is over.
WaitDone ==
    /\ runPc = "wait"
    /\ wg[cycle] = 0
    /\ runPc' = "select"
    /\ UNCHANGED <<storeVars, cancelled, tick, cycle, snapshot, idx, sem, wg, hostSems,
                   gates, workers, server, targets, results>>

\* run, lines 66-67: the select takes <-ctx.Done().
RunDone ==
    /\ runPc = "select"
    /\ cancelled
    /\ runPc' = "stopped"
    /\ UNCHANGED <<storeVars, cancelled, tick, cycle, snapshot, idx, sem, wg, hostSems,
                   gates, workers, server, targets, results>>

\* run, lines 68-69: the select takes <-ticker.C and starts the next cycle.
RunTick ==
    /\ runPc = "select"
    /\ tick
    /\ cycle < MaxCycles
    /\ tick' = FALSE
    /\ cycle' = cycle + 1
    /\ runPc' = "cycle"
    /\ UNCHANGED <<storeVars, cancelled, snapshot, idx, sem, wg, hostSems, gates, workers,
                   server, targets, results>>

\* ---------------------------------------------------------------- workers
Set(w, rec) == [workers EXCEPT ![w] = rec]

\* getHostSemaphore, lines 144-149, after url.Parse of checkTarget (lines
\* 110-116): the read-locked lookup.
GetHostSemaphoreFast(w) ==
    /\ workers[w].pc = "start"
    /\ LET p == UrlParse(workers[w].target.URL)
       IN  IF ~p.ok
           THEN workers' = Set(w, [workers[w] EXCEPT !.pc = "exit"])
           ELSE IF p.Host \in DOMAIN hostSems
           THEN workers' = Set(w, [workers[w] EXCEPT !.host = p.Host,
                                       !.hostSem = hostSems[p.Host],
                                       !.pc = "acquire"])
           ELSE workers' = Set(w, [workers[w] EXCEPT !.host = p.Host,
                                       !.pc = "create"])
    /\ UNCHANGED <<storeVars, cancelled, tick, schedVars, sem, wg, hostSems, gates,
                   server, targets, results>>

\* getHostSemaphore, lines 151-162 without the second lookup: every caller
\* that missed installs a gate of its own.
GetHostSemaphoreSlowUnchecked(w) ==
    /\ workers[w].pc = "create"
    /\ LET h == workers[w].host
       IN  /\ gates' = Append(gates, 0)
           /\ hostSems' = (h :> (Len(gates) + 1)) @@ hostSems
           /\ workers' = Set(w, [workers[w] EXCEPT !.hostSem = Len(gates) + 1,
                                       !.pc = "acquire"])
    /\ UNCHANGED <<storeVars, cancelled, tick, schedVars, sem, wg, server, targets,
                   results>>

\* getHostSemaphore, lines 151-162: under the write lock, look again, and
\* create the gate only when it is still missing.
GetHostSemaphoreSlow(w) ==
    /\ workers[w].pc = "create"
    /\ LET h == workers[w].host
       IN  IF h \in DOMAIN hostSems
           THEN /\ workers' = Set(w, [workers[w] EXCEPT
                                       !.hostSem = hostSems[h],
                                       !.pc = "acquire"])
                /\ UNCHANGED <<storeVars, hostSems, gates>>
           ELSE /\ gates' = Append(gates, 0)
                /\ hostSems' = (h :> (Len(gates) + 1)) @@ hostSems
                /\ workers' = Set(w, [workers[w] EXCEPT
                                       !.hostSem = Len(gates) + 1,
                                       !.pc = "acquire"])
    /\ UNCHANGED <<storeVars, cancelled, tick, schedVars, sem, wg, server, targets,
                   results>>

\* checkTarget, lines 121-127: no case of the select is ready (the gate is
\* held and ctx is not cancelled), the worker blocks.
AcquireHostBlock(w) ==
    /\ workers[w].pc = "acquire"
    /\ gates[workers[w].hostSem] = 1
    /\ ~cancelled
    /\ workers' = Set(w, [workers[w] EXCEPT !.pc = "blocked"])
    /\ UNCHANGED <<storeVars, cancelled, tick, schedVars, sem, wg, hostSems, gates,
                   server, targets, results>>

\* checkTarget, lines 123-124: the select takes <-ctx.Done(), at once or
\* woken by the cancellation; nothing was acquired, nothing is deferred.
AcquireHostCancelled(w) ==
    /\ workers[w].pc \in {"acquire", "blocked"}
    /\ cancelled
    /\ workers' = Set(w, [workers[w] EXCEPT !.hostSem = 0, !.pc = "exit"])
    /\ UNCHANGED <<storeVars, cancelled, tick, schedVars, sem, wg, hostSems, gates,
                   server, targets, results>>

\* checkTarget, lines 125-130: the select takes hostSem <- struct{}{} and
\* performCheck is entered.
AcquireHost(w) ==
    /\ workers[w].pc = "acquire"
    /\ gates[workers[w].hostSem] = 0
    /\ gates' = [gates EXCEPT ![workers[w].hostSem] = 1]
    /\ workers' = Set(w, [workers[w] EXCEPT !.pc = "request"])
    /\ UNCHANGED <<storeVars, cancelled, tick, schedVars, sem, wg, hostSems, server,
                   targets, results>>

\* ------------------------------------------------------------ performCheck
\* isNetworkError, lines 228-236: type assertions on the dynamic type of err
\* itself (nothing is unwrapped).
isNetworkError(e) == e.type \in NetworkCauses

\* The end of performCheck with lines 219-222 left out: lastErr is dropped.
AfterLoopDropsError(r) == [r EXCEPT !.pc = "ret"]

\* performCheck, lines 219-225: after the loop.
AfterLoop(r) ==
    [r EXCEPT !.error = IF r.lastErr # NilErr THEN ErrorString(r.lastErr) ELSE @,
              !.pc = "ret"]

\* The continue statement: attempt++, the loop condition, and for attempt > 0
\* the backoff select of lines 174-184.
Continue(r) ==
    IF r.attempt + 1 < maxAttempts
    THEN [r EXCEPT !.attempt = @ + 1, !.pc = "backoff"]
    ELSE AfterLoop([r EXCEPT !.attempt = @ + 1])

\* performCheck, lines 187-190: http.NewRequestWithContext failed.
OnBuildError(r, e) == Continue([r EXCEPT !.lastErr = e])

\* performCheck, lines 195-202: client.Do returned an error.
OnTransportError(r, e) ==
    IF isNetworkError(e)
    THEN Continue([r EXCEPT !.lastErr = e])
    ELSE AfterLoop([r EXCEPT !.lastErr = e])

\* performCheck, lines 204-216 with every status below 400 terminal only.
OnResponseRetry4xx(r, code) ==
    IF code < 400
    THEN [r EXCEPT !.status = code, !.pc = "ret"]
    ELSE IF r.attempt = maxAttempts - 1
    THEN AfterLoop([r EXCEPT !.status = code, !.lastErr = ServerError(code)])
    ELSE Continue([r EXCEPT !.status = code, !.lastErr = ServerError(code)])

\* performCheck, lines 204-216: client.Do returned a response.
OnResponse(r, code) ==
    IF code < RetryFrom
    THEN [r EXCEPT !.status = code, !.pc = "ret"]
    ELSE IF r.attempt = maxAttempts - 1
    THEN AfterLoop([r EXCEPT !.status = code, !.lastErr = ServerError(code)])
    ELSE Continue([r EXCEPT !.status = code, !.lastErr = ServerError(code)])

\* Lines 186-194 with a transport that sends the request whether or not ctx
\* is cancelled.
PerformRequestIgnoresContext(w) ==
    /\ workers[w].pc = "request"
    /\ LET r == [workers[w] EXCEPT !.tries = @ + 1]
       IN  IF ~UrlParse(r.target.URL).ok
           THEN workers' = Set(w, OnBuildError(r, UrlError("parse")))
           ELSE workers' = Set(w, [r EXCEPT !.requests = @ + 1, !.via = 1,
                                            !.pc = "inflight"])
    /\ UNCHANGED <<storeVars, cancelled, tick, schedVars, sem, wg, hostSems, gates,
                   server, targets, results>>

\* performCheck, lines 186-194: the request is built and handed to client.Do.
\* With ctx already cancelled the transport returns ctx.Err() before anything
\* is sent.
PerformRequest(w) ==
    /\ workers[w].pc = "request"
    /\ LET r == [workers[w] EXCEPT !.tries = @ + 1]
       IN  IF ~UrlParse(r.target.URL).ok
           THEN workers' = Set(w, OnBuildError(r, UrlError("parse")))
           ELSE IF cancelled
           THEN workers' = Set(w, OnTransportError(
                    [r EXCEPT !.outcomes = Append(@, Fail(Canceled))],
                    UrlError(Canceled)))
           ELSE workers' = Set(w, [r EXCEPT !.requests = @ + 1, !.via = 1,
                                            !.pc = "inflight"])
    /\ UNCHANGED <<storeVars, cancelled, tick, schedVars, sem, wg, hostSems, gates,
                   server, targets, results>>

\* New, lines 43-48: CheckRedirect(req, via), called by client.Do before it
\* follows a redirect, with the requests made so far in via; "nil" lets the
\* redirect be followed.
MaxVia == 5
CheckRedirect(via) == IF via >= MaxVia THEN RedirectError ELSE "nil"

\* client.Do (line 194) receives a redirect: it asks CheckRedirect and
\* either sends the next request of the chain or returns the error, wrapped
\* in a *url.Error, to lines 195-202.
PerformRedirect(w) ==
    /\ workers[w].pc = "inflight"
    /\ Redirect \in server
    /\ LET r == workers[w]
       IN  IF CheckRedirect(r.via) = "nil"
           THEN workers' = Set(w, [r EXCEPT !.via = @ + 1])
           ELSE workers' = Set(w, OnTransportError(
                    [r EXCEPT !.outcomes = Append(@, Fail(RedirectError))],
                    UrlError(RedirectError)))
    /\ UNCHANGED <<storeVars, cancelled, tick, schedVars, sem, wg, hostSems, gates,
                   server, targets, results>>

\* performCheck, lines 194-216: client.Do returns for a request that was sent;
\* once ctx is cancelled it may also return the context error.
PerformResponse(w) ==
    /\ workers[w].pc = "inflight"
    /\ \E o \in {x \in server : x.kind # "redirect"}
                \cup (IF cancelled THEN {Fail(Canceled)} ELSE {}) :
         LET r == [workers[w] EXCEPT !.outcomes = Append(@, o)]
         IN  workers' = Set(w, IF o.kind = "resp"
                               THEN OnResponse(r, o.code)
                               ELSE OnTransportError(r, UrlError(o.cause)))
    /\ UNCHANGED <<storeVars, cancelled, tick, schedVars, sem, wg, hostSems, gates,
                   server, targets, results>>

\* performCheck, lines 177-180: the backoff select takes <-ctx.Done().
PerformBackoffCancelled(w) ==
    /\ workers[w].pc = "backoff"
    /\ cancelled
    /\ workers' = Set(w, [workers[w] EXCEPT !.error = ContextCancelled,
                                            !.pc = "ret"])
    /\ UNCHANGED <<storeVars, cancelled, tick, schedVars, sem, wg, hostSems, gates,
                   server, targets, results>>

\* The backoff select taking the timer with line 182 (backoff *= 2) left out.
PerformBackoffTimerNoDoubling(w) ==
    /\ workers[w].pc = "backoff"
    /\ workers' = Set(w, [workers[w] EXCEPT !.sleeps = Append(@, workers[w].backoff),
                                            !.pc = "request"])
    /\ UNCHANGED <<storeVars, cancelled, tick, schedVars, sem, wg, hostSems, gates,
                   server, targets, results>>

\* performCheck, lines 181-182: the backoff select takes <-time.After(backoff).
PerformBackoffTimer(w) ==
    /\ workers[w].pc = "backoff"
    /\ workers' = Set(w, [workers[w] EXCEPT !.sleeps = Append(@, workers[w].backoff),
                                            !.backoff = @ * 2,
                                            !.pc = "request"])
    /\ UNCHANGED <<storeVars, cancelled, tick, schedVars, sem, wg, hostSems, gates,
                   server, targets, results>>

\* ------------------------------------------------------ end of checkTarget
\* The row of lines 255-261 with the target id left empty.
RowWithoutTarget(r) ==
    [target_id |-> <<>>, checked_at |-> r.cycle, status_code |-> r.status,
     error |-> r.error]

\* The row SaveCheckResult inserts (lines 255-261); checked_at, the time
\* checkTarget read before the probe (lines 129-131), is kept as the cycle
\* the worker belongs to.
Row(r) ==
    [target_id |-> r.target.ID, checked_at |-> r.cycle, status_code |-> r.status,
     error |-> r.error]

\* The workers blocked on gate g, those woken by the cancellation included.
BlockedOnAfterCancel(g) ==
    {v \in Workers : workers[v].pc = "blocked" /\ workers[v].hostSem = g}

\* The workers blocked in the select of lines 121-127 on gate g whose select
\* the cancellation has not completed.
BlockedOn(g) ==
    IF cancelled THEN {}
    ELSE {v \in Workers : workers[v].pc = "blocked" /\ workers[v].hostSem = g}

\* SaveCheckResult with a return on the insert's error that skips the release
\* of the host gate.
SaveCheckResultKeepsGate(w) ==
    /\ workers[w].pc = "ret"
    /\ workers[w].cycle > 0
    /\ LET g == workers[w].hostSem
           saved == /\ Len(results) < database.rows
                    /\ workers[w].target.ID \notin database.refused
           done == [workers[w] EXCEPT !.hostSem = 0, !.pc = "exit"]
       IN  \E ok \in database.answers :
             IF ok /\ saved
             THEN /\ results' = Append(results, Row(workers[w]))
                  /\ IF BlockedOn(g) = {}
                     THEN /\ gates' = [gates EXCEPT ![g] = 0]
                          /\ workers' = Set(w, done)
                     ELSE /\ gates' = gates
                          /\ \E v \in BlockedOn(g) :
                               workers' = [workers EXCEPT ![w] = done,
                                                          ![v].pc = "request"]
             ELSE /\ results' = results
                  /\ gates' = gates
                  /\ workers' = Set(w, done)
    /\ UNCHANGED <<storeVars, cancelled, tick, schedVars, sem, wg, hostSems, server,
                   targets>>

\* checkTarget, lines 131-141: SaveCheckResult is called with whatever
\* performCheck returned; the insert may fail; on return the deferred
\* <-hostSem runs, which empties the gate or hands it to a worker blocked on
\* it, who enters performCheck.
SaveCheckResult(w) ==
    /\ workers[w].pc = "ret"
    /\ workers[w].cycle > 0
    /\ \E ok \in database.answers :
         results' = IF /\ ok
                       /\ Len(results) < database.rows
                       /\ workers[w].target.ID \notin database.refused
                    THEN Append(results, Row(workers[w]))
                    ELSE results
    /\ LET g == workers[w].hostSem
           done == [workers[w] EXCEPT !.hostSem = 0, !.pc = "exit"]
       IN  IF BlockedOn(g) = {}
           THEN /\ gates' = [gates EXCEPT ![g] = 0]
                /\ workers' = Set(w, done)
           ELSE /\ gates' = gates
                /\ \E v \in BlockedOn(g) :
                     workers' = [workers EXCEPT ![w] = done,
                                                ![v].pc = "request"]
    /\ UNCHANGED <<storeVars, cancelled, tick, schedVars, sem, wg, hostSems, server,
                   targets>>

\* The goroutine of lines 97-101 without the deferred <-sem: the worker ends
\* with its slot.
WorkerExitKeepsSlot(w) ==
    /\ workers[w].pc = "exit"
    /\ sem' = sem
    /\ wg' = [wg EXCEPT ![workers[w].cycle] = @ - 1]
    /\ workers' = [k \in Workers \ {w} |-> workers[k]]
    /\ UNCHANGED <<storeVars, cancelled, tick, schedVars, hostSems, gates,
                   server, targets, results>>

\* checkAllTargets, lines 98-99: the deferred <-sem and wg.Done() of the
\* goroutine, which then ends. The receive frees a slot of sem or hands it
\* to the dispatcher blocked in the select of lines 91-95.
WorkerExit(w) ==
    /\ workers[w].pc = "exit"
    /\ IF runPc = "blocked" /\ workers[w].cycle = cycle /\ ~cancelled
       THEN /\ runPc' = "spawn"
            /\ sem' = sem
       ELSE /\ runPc' = runPc
            /\ sem' = [sem EXCEPT ![workers[w].cycle] = @ - 1]
    /\ wg' = [wg EXCEPT ![workers[w].cycle] = @ - 1]
    /\ workers' = [k \in Workers \ {w} |-> workers[k]]
    /\ UNCHANGED <<storeVars, cancelled, tick, cycle, snapshot, idx, hostSems, gates,
                   server, targets, results>>

\* ---------------------------------------------------------- specifications
Next ==
    \/ Cancel
    \/ Tick
    \/ Start
    \/ GetAllTargets
    \/ DispatchCancelled
    \/ DispatchSpawn
    \/ DispatchBlock
    \/ DispatchGo
    \/ WaitDone
    \/ RunDone
    \/ RunTick
    \/ \E w \in Workers : GetHostSemaphoreFast(w)
    \/ \E w \in Workers : GetHostSemaphoreSlow(w)
    \/ \E w \in Workers : AcquireHostBlock(w)
    \/ \E w \in Workers : AcquireHostCancelled(w)
    \/ \E w \in Workers : AcquireHost(w)
    \/ \E w \in Workers : PerformRequest(w)
    \/ \E w \in Workers : PerformResponse(w)
    \/ \E w \in Workers : PerformBackoffCancelled(w)
    \/ \E w \in Workers : PerformBackoffTimer(w)
    \/ \E w \in Workers : SaveCheckResult(w)
    \/ \E w \in Workers : WorkerExit(w)

Spec == Init /\ [][Next]_vars

\* performCheck called on its own, as the package's tests call it: one probe
\* of a URL, with ctx cancelled beforehand, meanwhile, or never.
InitProbe ==
    /\ cancelled \in BOOLEAN
    /\ tick = FALSE
    /\ runPc = "idle"
    /\ cycle = 0
    /\ snapshot = <<>>
    /\ idx = 0
    /\ sem = [c \in 1..MaxCycles |-> 0]
    /\ wg = [c \in 1..MaxCycles |-> 0]
    /\ hostSems = <<>>
    /\ gates = <<>>
    /\ \E u \in ProbeURLs :
         workers = (<<0, 1>> :> NewProbe(0, [ID |-> 1, URL |-> u], "request"))
    /\ server = ProbeOutcomes
    /\ targets = <<>>
    /\ results = <<>>
    /\ StoreInit

NextProbe ==
    \/ Cancel
    \/ \E w \in Workers : PerformRequest(w)
    \/ \E w \in Workers : PerformRedirect(w)
    \/ \E w \in Workers : PerformResponse(w)
    \/ \E w \in Workers : PerformBackoffCancelled(w)
    \/ \E w \in Workers : PerformBackoffTimer(w)

SpecProbe == InitProbe /\ [][NextProbe]_vars

\* ================================================================ claims
\* Inside the probe section of checkTarget: the host gate is held.
InProbe(w) == workers[w].pc \in {"request", "inflight", "backoff", "ret"}

\* Goroutines spawned by checkAllTargets that have not ended.
Spawned == {w \in Workers : workers[w].cycle > 0}

\* The host checkTarget derives from the worker's target.
HostOf(w) == UrlParse(workers[w].target.URL).Host

\* performCheck has returned its result.
Returned(w) == workers[w].pc = "ret"

Is5xx(o) == o.kind = "resp" /\ o.code >= 500
IsNetworkFailure(o) == o.kind = "err" /\ o.cause \in NetworkCauses
IsOtherFailure(o) ==
    o.kind = "err" /\ o.cause \in OtherCauses \cup {RedirectError}

\* C1: at most MaxConcurrency workers are spawned and not yet finished, in
\* every reachable state, also after cancellation and across cycles.
C1_GlobalConcurrencyBound ==
    Cardinality(Spawned) <= MaxConcurrency

\* C2: for every host, at most one worker at a time is between acquiring and
\* releasing that host's gate for a target whose URL host it is.
C2_PerHostSerialization ==
    \A w1 \in Workers : \A w2 \in Workers :
        (w1 # w2 /\ InProbe(w1) /\ InProbe(w2)) => HostOf(w1) # HostOf(w2)

\* A worker probes a target while, before any cancellation, a second worker
\* for the same host waits at the gate.
C2_Witness ==
    \E w1 \in Workers : \E w2 \in Workers :
        /\ ~cancelled
        /\ w1 # w2
        /\ HostOf(w1) = HostOf(w2)
        /\ workers[w1].pc = "inflight"
        /\ workers[w2].pc = "acquire"

\* C3: when run invokes checkAllTargets for a new cycle, no worker of an
\* earlier cycle is still running.
C3_CycleCompletesBeforeNext ==
    runPc = "cycle" => Spawned = {}

\* C4: checkAllTargets returns, and run returns, only after every worker of
\* the cycle has terminated.
C4_ReturnsAfterWorkers ==
    runPc \in {"select", "stopped"} => Spawned = {}

\* C5: once ctx is cancelled no worker is spawned and no checkTarget passes
\* its host gate into performCheck.
C5_NoProbeBeginsAfterCancel ==
    [][cancelled =>
         /\ DOMAIN workers' \subseteq DOMAIN workers
         /\ \A w \in DOMAIN workers' :
              ~(workers[w].pc = "acquire" /\ workers'[w].pc = "request")]_vars

\* C6: no row of check_results comes from a performCheck that ended because of
\* cancellation (in a backoff sleep or in the HTTP operation).
C6_NoResultAfterCancellation ==
    \A i \in 1..Len(results) :
        results[i].error.cause \notin {ContextCancelled.cause, Canceled}

\* C7: no probe makes more than 3 HTTP attempts, and a probe that is not
\* abandoned in a backoff sleep and whose every attempt received a 5xx response
\* has made exactly 3, with status_code the code received and error present.
C7_Persistent5xx ==
    \A w \in Workers :
        /\ workers[w].requests <= 3
        /\ ( /\ Returned(w)
             /\ workers[w].outcomes # <<>>
             /\ \A i \in 1..Len(workers[w].outcomes) : Is5xx(workers[w].outcomes[i])
             /\ workers[w].error # ContextCancelled )
           => /\ workers[w].requests = 3
              /\ workers[w].status = workers[w].outcomes[3].code
              /\ workers[w].error = ErrorString(ServerError(workers[w].status))

\* A probe has returned after three 500 responses.
C7_Witness ==
    \E w \in Workers :
        /\ Returned(w)
        /\ workers[w].outcomes = <<Resp(500), Resp(500), Resp(500)>>
        /\ workers[w].requests = 3

\* C8: a response with status below 500 is the last thing the probe does: it
\* has returned that status with error absent, and no attempt follows.
C8_TerminalResponse ==
    \A w \in Workers :
        \A i \in 1..Len(workers[w].outcomes) :
            (workers[w].outcomes[i].kind = "resp" /\ workers[w].outcomes[i].code < 500)
            => /\ i = Len(workers[w].outcomes)
               /\ Returned(w)
               /\ workers[w].status = workers[w].outcomes[i].code
               /\ workers[w].error = NilString
               /\ workers[w].requests = i

\* A probe has returned 200 on its third attempt after 500, 500.
C8_Witness ==
    \E w \in Workers :
        /\ Returned(w)
        /\ workers[w].outcomes = <<Resp(500), Resp(500), Resp(200)>>
        /\ workers[w].requests = 3
        /\ workers[w].status = 200

\* C9: a probe whose every attempt fails with a network error (and that is not
\* abandoned in a backoff sleep) makes exactly 3 attempts and returns error
\* present, status_code absent.
C9_NetworkErrorsRetried ==
    \A w \in Workers :
        ( /\ Returned(w)
          /\ workers[w].outcomes # <<>>
          /\ \A i \in 1..Len(workers[w].outcomes) :
                 IsNetworkFailure(workers[w].outcomes[i])
          /\ workers[w].error # ContextCancelled )
        => /\ workers[w].requests = 3
           /\ workers[w].error # NilString
           /\ workers[w].status = 0

\* C10: a probe (ctx not cancelled) whose first attempt fails in building the
\* request, or with a transport error that is not a network error, makes that
\* one attempt only, sleeps no backoff and returns that error.
C10_NonRetryableErrors ==
    \A w \in Workers :
        ( /\ ~cancelled
          /\ Returned(w)
          /\ \/ ~UrlParse(workers[w].target.URL).ok
             \/ /\ workers[w].outcomes # <<>>
                /\ IsOtherFailure(workers[w].outcomes[1]) )
        => /\ workers[w].tries = 1
           /\ workers[w].sleeps = <<>>
           /\ workers[w].error # NilString

\* ============================================================== registry
\* The registry (internal/storage) and its HTTP front (internal/api).
\*
\* A string the code takes apart is a sequence of tokens: a URL string is
\* <<scheme, "://", host, ...>>; an id and a page token are sequences of
\* characters.

\* ---------------------------------------------------------------- bounds
\* POST /v1/targets requests made in one behaviour.
MaxCalls == 3
\* Readings of time.Now() that differ.
MaxClock == 3
\* Pages one client fetches.
MaxPages == 3
\* Rows of check_results saved directly.
MaxRows == 3

\* --------------------------------------------------- URLs as clients send
\* A request URL is [scheme, host, port, path, query, fragment]; "" is an
\* absent part, query is a sequence of tokens.
RawURL(scheme, host, port, path, query, fragment) ==
    [scheme |-> scheme, host |-> host, port |-> port, path |-> path,
     query |-> query, fragment |-> fragment]

\* The empty string.
EmptyURL == RawURL("", "", "", "", <<>>, "")

\* strings.ToLower on the hosts and schemes in use.
ToLower(s) ==
    CASE s = "A.COM" -> "a.com"
      [] s = "HTTPS" -> "https"
      [] OTHER -> s

\* The tokens of a path: the paths the canonicalizer takes apart are written
\* token by token, any other path is one token.
PathTokens(path) ==
    CASE path = "" -> <<>>
      [] path = "/" -> <<"/">>
      [] path = "//" -> <<"/", "/">>
      [] path = "/p" -> <<"/", "p">>
      [] path = "/p/" -> <<"/", "p", "/">>
      [] path = "/p//" -> <<"/", "p", "/", "/">>
      [] OTHER -> <<path>>

\* The path strings written token by token, and the path spelled by a
\* sequence of their tokens.
PathStrings == {"", "/", "//", "/p", "/p/", "/p//"}
PathOf(tokens) ==
    IF \E path \in PathStrings : PathTokens(path) = tokens
    THEN CHOOSE path \in PathStrings : PathTokens(path) = tokens
    ELSE tokens[1]

\* strings.HasSuffix(path, "/") and strings.TrimSuffix(path, "/"): the
\* suffix is one slash, and one slash is taken off.
HasSlashSuffix(path) ==
    /\ PathTokens(path) # <<>>
    /\ PathTokens(path)[Len(PathTokens(path))] = "/"
\* Line 306 leaving the path as it is.
TrimSlashSuffixKeepsSlash(path) == path
TrimSlashSuffix(path) ==
    IF HasSlashSuffix(path)
    THEN PathOf(SubSeq(PathTokens(path), 1, Len(PathTokens(path)) - 1))
    ELSE path

\* (*url.URL).String(): scheme://host[:port]path[?query][#fragment].
String(u) ==
    <<u.scheme, "://", u.host>>
        \o (IF u.port = "" THEN <<>> ELSE <<":", u.port>>)
        \o PathTokens(u.path)
        \o (IF u.query = <<>> THEN <<>> ELSE <<"?">> \o u.query)
        \o (IF u.fragment = "" THEN <<>> ELSE <<"#", u.fragment>>)

\* CanonicalizeURL, lines 273-310: err is "" on success.
CanonicalizeURL(u) ==
    IF ~UrlParse(u).ok THEN [err |-> "invalid URL escape", url |-> <<>>]
    ELSE IF u.scheme = "" THEN [err |-> "missing scheme", url |-> <<>>]
    ELSE
      LET scheme == ToLower(u.scheme)
          host == ToLower(u.host)
          port == IF \/ scheme = "http" /\ u.port = "80"
                     \/ scheme = "https" /\ u.port = "443"
                  THEN "" ELSE u.port
          path == IF u.path # "/" /\ HasSlashSuffix(u.path)
                  THEN TrimSlashSuffix(u.path) ELSE u.path
      IN [err |-> "",
          url |-> String(RawURL(scheme, host, port, path, u.query, ""))]

\* url.Parse(canonicalURL).Scheme, router.go lines 53-59.
SchemeOf(str) == str[1]

\* The decimal digits of a clock reading (fmt's %d, and the digits of a
\* formatted time); readings stay below 10.
Digits == <<"0", "1", "2", "3", "4", "5", "6", "7", "8", "9">>
Itoa(n) == <<Digits[n + 1]>>

\* generateID("t_"), lines 268-271, at reading n of the clock: the string
\* "t_<n>", character by character.
generateID(n) == <<"t", "_">> \o Itoa(n)

\* The row CreateTarget inserts (line 114) and the models.Target read back.
TargetRow(id, url, canonical, now) ==
    [ID |-> id, URL |-> url, CanonicalURL |-> canonical, CreatedAt |-> now]

\* The rows of a table kept as a sequence.
Rows(table) == {table[i] : i \in 1..Len(table)}

\* A row of idempotency_keys (lines 77-78, 122-123) as the key refers to it.
KeyRow(id, now) == [target_id |-> id, created_at |-> now]

\* ------------------------------------------------------ POST /v1/targets
\* A request: whether the body decodes as JSON, its "url" member, and the
\* Idempotency-Key header ("" when absent).
Request(json, url, key) == [json |-> json, url |-> url, key |-> key]

IdempotencyKeys == {"k1", "k2"}

\* https://a.com and HTTPS://A.COM:443#f canonicalize alike.
GoodURLs ==
    {RawURL("https", "a.com", "", "", <<>>, ""),
     RawURL("HTTPS", "A.COM", "443", "", <<>>, "f"),
     RawURL("https", "b.com", "", "/p/", <<>>, "")}

\* a.com (no scheme), https://a.com/%zz (bad escape), ftp://a.com.
BadURLs ==
    {RawURL("", "", "", "a.com", <<>>, ""),
     RawURL("https", "a.com", "", BadPath, <<>>, ""),
     RawURL("ftp", "a.com", "", "", <<>>, "")}

Requests ==
    {Request(TRUE, u, k) : u \in GoodURLs, k \in {""} \cup IdempotencyKeys}
        \cup {Request(TRUE, u, "") : u \in BadURLs \cup {EmptyURL}}
        \cup {Request(TRUE, RawURL("ftp", "a.com", "", "", <<>>, ""), "k1"),
              Request(FALSE, EmptyURL, "")}

\* Handler.CreateTarget, lines 35-50 without the scheme check of lines
\* 52-62.
RejectsAnyScheme(req) ==
    \/ ~req.json
    \/ req.url = EmptyURL
    \/ CanonicalizeURL(req.url).err # ""

\* Handler.CreateTarget, lines 35-62: the requests answered 400 before the
\* store is called.
Rejects(req) ==
    \/ ~req.json
    \/ req.url = EmptyURL
    \/ CanonicalizeURL(req.url).err # ""
    \/ SchemeOf(CanonicalizeURL(req.url).url) \notin {"http", "https"}

\* A reading of time.Now() after reading n: the clock does not go back and
\* two readings may coincide.
Readings(n) == {m \in {n, n + 1} : m <= MaxClock}

\* SELECT ... FROM targets WHERE canonical_url = ? (line 71) and WHERE id = ?
\* (line 99).
ByCanonical(canonical) == {t \in Rows(targets) : t.CanonicalURL = canonical}
ByID(id) == {t \in Rows(targets) : t.ID = id}

\* Lines 84 and 105 returning true for a target found in the table.
ReturnExistingAsNew(t) == [target |-> t, isNew |-> TRUE]

\* What CreateTarget hands back for a target found in the table (lines 84,
\* 105) and for the one it inserted (lines 133-137).
ReturnExisting(t) == [target |-> t, isNew |-> FALSE]
ReturnCreated(t) == [target |-> t, isNew |-> TRUE]
ReturnError == [target |-> TargetRow(<<>>, EmptyURL, <<>>, 0), isNew |-> FALSE]

\* The tables of Migrate without the UNIQUE constraints on url and
\* canonical_url.
ViolatesPrimaryKeyOnly(row, key) ==
    \/ \E t \in Rows(targets) : t.ID = row.ID
    \/ key \in DOMAIN keys

\* The UNIQUE and PRIMARY KEY constraints of Migrate (lines 23-28, 40-45) on
\* the inserts of lines 114 and 122.
Violates(row, key) ==
    \/ \E t \in Rows(targets) :
         \/ t.ID = row.ID
         \/ t.URL = row.URL
         \/ t.CanonicalURL = row.CanonicalURL
    \/ key \in DOMAIN keys

\* The answer to a request, as the client and the handler see it
\* (lines 71-88): the status code and, on success, the target.
Answer(req, canonical, status, ret) ==
    [json |-> req.json, url |-> req.url, key |-> req.key,
     canonical |-> canonical, status |-> status, target |-> ret.target,
     isNew |-> ret.isNew]

\* statusCode of lines 77-80.
statusCode(ret) == IF ret.isNew THEN 201 ELSE 200

\* Requests begun so far.
Begun == Len(calls) + Cardinality(DOMAIN txs)

checkerVars == <<cancelled, tick, runPc, cycle, snapshot, idx, sem, wg,
                 hostSems, gates, workers, server>>

\* Handler.CreateTarget, lines 33-70, into Storage.CreateTarget, lines
\* 59-111: the validation, the two readings of the clock, Begin and the
\* SELECTs. The request is answered here unless a target is to be inserted;
\* ok is FALSE when the database fails a statement (the deferred Rollback
\* then undoes the transaction and the handler answers 500).
PostTarget(req) ==
    /\ Begun < MaxCalls
    /\ IF Rejects(req)
       THEN /\ calls' = Append(calls, Answer(req, <<>>, 400, ReturnError))
            /\ UNCHANGED <<keys, clock, txs, targets>>
       ELSE \E n1 \in Readings(clock), ok \in database.answers :
            \E now \in Readings(n1) :
              LET canonical == CanonicalizeURL(req.url).url
                  existing == ByCanonical(canonical)
                  bound == IF req.key \in DOMAIN keys
                           THEN ByID(keys[req.key].target_id) ELSE {}
              IN /\ clock' = now
                 /\ CASE ~ok ->
                           /\ calls' = Append(calls,
                                  Answer(req, canonical, 500, ReturnError))
                           /\ UNCHANGED <<keys, txs>>
                      [] ok /\ existing # {} ->
                           \* lines 74-85: INSERT OR IGNORE, Commit
                           /\ keys' = IF req.key # "" /\ req.key \notin DOMAIN keys
                                      THEN keys @@ (req.key :>
                                             KeyRow((CHOOSE t \in existing : TRUE).ID, now))
                                      ELSE keys
                           /\ calls' = Append(calls,
                                  Answer(req, canonical,
                                         statusCode(ReturnExisting(CHOOSE t \in existing : TRUE)),
                                         ReturnExisting(CHOOSE t \in existing : TRUE)))
                           /\ UNCHANGED txs
                      [] ok /\ existing = {} /\ bound # {} ->
                           \* lines 92-106: the key is recorded
                           /\ calls' = Append(calls,
                                  Answer(req, canonical,
                                         statusCode(ReturnExisting(CHOOSE t \in bound : TRUE)),
                                         ReturnExisting(CHOOSE t \in bound : TRUE)))
                           /\ UNCHANGED <<keys, txs>>
                      [] OTHER ->
                           /\ txs' = txs @@ ((Begun + 1) :>
                                  [req |-> req, canonical |-> canonical,
                                   targetID |-> generateID(n1), now |-> now])
                           /\ UNCHANGED <<keys, calls>>
                 /\ UNCHANGED targets
    /\ UNCHANGED <<checkerVars, results, pages, reply, canon, database>>

\* The INSERTs of lines 113-127 made outside a transaction: the target stays
\* when the insert of the idempotency key fails.
CreateTargetInsertNoRollback(c) ==
    LET tx == txs[c]
        row == TargetRow(tx.targetID, tx.req.url, tx.canonical, tx.now)
    IN /\ \E ok \in database.answers :
            IF ok /\ ~Violates(row, tx.req.key)
            THEN /\ targets' = Append(targets, row)
                 /\ keys' = IF tx.req.key # ""
                            THEN keys @@ (tx.req.key :> KeyRow(row.ID, tx.now))
                            ELSE keys
                 /\ calls' = Append(calls,
                        Answer(tx.req, tx.canonical,
                               statusCode(ReturnCreated(row)), ReturnCreated(row)))
            ELSE /\ calls' = Append(calls,
                        Answer(tx.req, tx.canonical, 500, ReturnError))
                 /\ targets' = IF ok /\ ~Violates(row, "")
                               THEN Append(targets, row) ELSE targets
                 /\ keys' = keys
       /\ txs' = [k \in DOMAIN txs \ {c} |-> txs[k]]
       /\ UNCHANGED <<checkerVars, results, clock, pages, reply, canon,
                    database>>

\* Storage.CreateTarget, lines 113-137, and Handler.CreateTarget, lines
\* 71-88: the INSERTs and the Commit of a transaction that found nothing. A
\* constraint violation or a database failure undoes both inserts.
CreateTargetInsert(c) ==
    LET tx == txs[c]
        row == TargetRow(tx.targetID, tx.req.url, tx.canonical, tx.now)
    IN /\ \E ok \in database.answers :
            IF ok /\ ~Violates(row, tx.req.key)
            THEN /\ targets' = Append(targets, row)
                 /\ keys' = IF tx.req.key # ""
                            THEN keys @@ (tx.req.key :> KeyRow(row.ID, tx.now))
                            ELSE keys
                 /\ calls' = Append(calls,
                        Answer(tx.req, tx.canonical,
                               statusCode(ReturnCreated(row)), ReturnCreated(row)))
            ELSE /\ calls' = Append(calls,
                        Answer(tx.req, tx.canonical, 500, ReturnError))
                 /\ UNCHANGED <<targets, keys>>
       /\ txs' = [k \in DOMAIN txs \ {c} |-> txs[k]]
       /\ UNCHANGED <<checkerVars, results, clock, pages, reply, canon,
                    database>>

\* The registry under concurrent POST /v1/targets requests.
InitStore ==
    /\ cancelled = FALSE
    /\ tick = FALSE
    /\ runPc = "idle"
    /\ cycle = 0
    /\ snapshot = <<>>
    /\ idx = 0
    /\ sem = [c \in 1..MaxCycles |-> 0]
    /\ wg = [c \in 1..MaxCycles |-> 0]
    /\ hostSems = <<>>
    /\ gates = <<>>
    /\ workers = <<>>
    /\ server = {}
    /\ targets = <<>>
    /\ results = <<>>
    /\ StoreInit

NextStore ==
    \/ \E req \in Requests : PostTarget(req)
    \/ \E c \in DOMAIN txs : CreateTargetInsert(c)

SpecStore == InitStore /\ [][NextStore]_vars

\* ------------------------------------------------------- registry claims
\* The calls of Storage.CreateTarget that returned a target.
Succeeded(i) == calls[i].status \in {200, 201}

\* The call was answered with the target of its own canonical URL, and not
\* with the target an idempotency key was recorded for.
OwnURL(i) == calls[i].target.CanonicalURL = calls[i].canonical

\* C11 as stated: any two CreateTarget calls with equal canonical URLs, with
\* or without idempotency keys, return the same target id and the later one
\* returns is_new = false.
C11_DuplicateRegistration ==
    \A i, j \in 1..Len(calls) :
        (i < j /\ Succeeded(i) /\ Succeeded(j)
           /\ calls[i].canonical = calls[j].canonical)
        => /\ calls[i].target.ID = calls[j].target.ID
           /\ ~calls[j].isNew

\* C11 amended: any two CreateTarget calls with equal canonical URLs that
\* were both answered with the target of their own URL (neither was answered
\* through an idempotency key recorded for another URL's target) return the
\* same target id, and the later one returns is_new = false.
C11_DuplicateRegistrationOwnURL ==
    \A i, j \in 1..Len(calls) :
        (i < j /\ Succeeded(i) /\ Succeeded(j)
           /\ OwnURL(i) /\ OwnURL(j)
           /\ calls[i].canonical = calls[j].canonical)
        => /\ calls[i].target.ID = calls[j].target.ID
           /\ ~calls[j].isNew

\* Two different URLs with one canonical form were registered, the second
\* carrying an idempotency key, and both got the same target.
C11_Witness ==
    \E i, j \in 1..Len(calls) :
        /\ i < j /\ Succeeded(i) /\ Succeeded(j)
        /\ calls[i].url # calls[j].url
        /\ calls[i].canonical = calls[j].canonical
        /\ calls[i].isNew /\ calls[j].key # ""
        /\ OwnURL(i) /\ OwnURL(j)
        /\ calls[i].target.ID = calls[j].target.ID

\* Call i is the first successful call that carried its idempotency key: the
\* call that recorded the key.
Recorded(i) ==
    /\ Succeeded(i)
    /\ calls[i].key # ""
    /\ \A h \in 1..(i - 1) : ~(Succeeded(h) /\ calls[h].key = calls[i].key)

\* C12: after a successful CreateTarget(u1, key=k), every later successful
\* CreateTarget(u2, key=k) with another URL returns the target of the first
\* call with is_new = false, whatever calls were made in between.
C12_KeyPrecedence ==
    \A i, j \in 1..Len(calls) :
        (i < j /\ Recorded(i) /\ Succeeded(j)
           /\ calls[j].key = calls[i].key
           /\ calls[j].canonical # calls[i].canonical)
        => /\ calls[j].target.ID = calls[i].target.ID
           /\ ~calls[j].isNew

\* Every recorded idempotency key refers to exactly one row of targets.
KeysReferToTargets ==
    \A k \in DOMAIN keys : Cardinality(ByID(keys[k].target_id)) = 1

\* No step removes or rebinds a recorded idempotency key.
KeysAreStable ==
    \A k \in DOMAIN keys : k \in DOMAIN keys' /\ keys'[k] = keys[k]

\* Every successful call that carried a recorded key returned the key's target.
KeyedCallsReturnBinding ==
    \A j \in 1..Len(calls) :
        (Succeeded(j) /\ calls[j].key \in DOMAIN keys)
        => calls[j].target.ID = keys[calls[j].key].target_id

\* C14: each idempotency key is recorded at most once and refers to exactly
\* one existing target; once k is bound to T no CreateTarget call changes the
\* binding, and every CreateTarget call carrying k returns T.
C14_KeyBinding ==
    /\ [](KeysReferToTargets /\ KeyedCallsReturnBinding)
    /\ [][KeysAreStable]_vars

\* C13: canonical_url is unique across targets and target ids are pairwise
\* distinct in every reachable state, also when CreateTarget calls for one
\* canonical URL interleave between the existence check and the insert.
C13_UniqueTargets ==
    \A i, j \in 1..Len(targets) :
        i # j => /\ targets[i].CanonicalURL # targets[j].CanonicalURL
                 /\ targets[i].ID # targets[j].ID

\* A call that found no target for its canonical URL has not inserted yet,
\* and another call has inserted a target with that canonical URL meanwhile,
\* under a different request URL and a different id.
C13_Witness ==
    \E c \in DOMAIN txs : \E t \in ByCanonical(txs[c].canonical) :
        /\ t.URL # txs[c].req.url
        /\ t.ID # txs[c].targetID

\* ------------------------------------------------------- GET /v1/targets
\* strings.Split(str, sep), line 153: the pieces of str between the
\* occurrences of sep.
RECURSIVE Split(_, _)
Split(str, sep) ==
    IF \A i \in 1..Len(str) : str[i] # sep
    THEN <<str>>
    ELSE LET i == CHOOSE i \in 1..Len(str) :
                      str[i] = sep /\ \A j \in 1..(i - 1) : str[j] # sep
         IN <<SubSeq(str, 1, i - 1)>> \o Split(SubSeq(str, i + 1, Len(str)), sep)

\* The byte order of the characters of ids, times and page tokens.
Rank(ch) ==
    CASE ch = "+" -> 43
      [] ch = "Z" -> 90
      [] ch = "_" -> 95
      [] ch = "t" -> 116
      [] OTHER -> 48 + (CHOOSE d \in 0..9 : Digits[d + 1] = ch)

\* The order of two TEXT values in SQLite (memcmp, the shorter first).
RECURSIVE TextLess(_, _)
TextLess(a, b) ==
    IF b = <<>> THEN FALSE
    ELSE IF a = <<>> THEN TRUE
    ELSE IF a[1] # b[1] THEN Rank(a[1]) < Rank(b[1])
    ELSE TextLess(Tail(a), Tail(b))

\* time.Time.Format(time.RFC3339Nano) of a UTC instant (line 193), and the
\* text of a created_at column.
FormatTime(n) == Itoa(n) \o <<"Z">>

\* ORDER BY created_at, id (line 168) as an order on rows.
RowLess(t, u) ==
    \/ TextLess(FormatTime(t.CreatedAt), FormatTime(u.CreatedAt))
    \/ t.CreatedAt = u.CreatedAt /\ TextLess(t.ID, u.ID)

\* The rows of a set in that order.
RECURSIVE SortRows(_)
SortRows(S) ==
    IF S = {} THEN <<>>
    ELSE LET first == CHOOSE t \in S : \A u \in S \ {t} : RowLess(t, u)
         IN <<first>> \o SortRows(S \ {first})

\* canonical_url LIKE '%://' || host || '/%' (lines 147-148).
Like(str, host) ==
    \E i \in 1..(Len(str) - 2) : SubSeq(str, i, i + 2) = <<"://", host, "/">>

\* (created_at > ? OR (created_at = ? AND id > ?)), lines 159-163.
AfterCursor(t, timestamp, id) ==
    \/ TextLess(timestamp, FormatTime(t.CreatedAt))
    \/ FormatTime(t.CreatedAt) = timestamp /\ TextLess(id, t.ID)

\* The next page token of lines 192-193: "<created_at>_<id>".
PageToken(last) == FormatTime(last.CreatedAt) \o <<"_">> \o last.ID

\* Storage.ListTargets, lines 140-197, on the rows of table; host "" is the
\* nil pointer, pageToken <<>> the empty string.
ListTargets(table, host, limit, pageToken) ==
    LET hostRows == IF host # ""
                    THEN {t \in Rows(table) : Like(t.CanonicalURL, ToLower(host))}
                    ELSE Rows(table)
        parts == Split(pageToken, "_")
        cursorRows == IF pageToken # <<>> /\ Len(parts) = 2
                      THEN {t \in hostRows : AfterCursor(t, parts[1], parts[2])}
                      ELSE hostRows
        sorted == SortRows(cursorRows)
        fetched == SubSeq(sorted, 1,
                          IF Len(sorted) < limit + 1 THEN Len(sorted) ELSE limit + 1)
    IN IF Len(fetched) > limit
       THEN [Items |-> SubSeq(fetched, 1, limit),
             NextPageToken |-> PageToken(fetched[limit])]
       ELSE [Items |-> fetched, NextPageToken |-> <<>>]

\* https://a.com, https://a.com/ and https://b.com/p?u=http://a.com/.
ListURLs ==
    {RawURL("https", "a.com", "", "", <<>>, ""),
     RawURL("https", "a.com", "", "/", <<>>, ""),
     RawURL("https", "b.com", "", "/p", <<"u=", "http", "://", "a.com", "/">>, "")}

ListRequests == {Request(TRUE, u, "") : u \in ListURLs}

\* The host parameters ("" when absent) and the limits a client lists with.
Hosts == {"", "A.COM"}
Limits == 1..MaxCalls

\* Handler.ListTargets, lines 91-117, over Storage.ListTargets: a client
\* fetches the first page, or follows the next_page_token of the page it
\* fetched last, with the same host and limit.
ListPage(host, limit) ==
    /\ Len(pages) < MaxPages
    /\ IF pages = <<>>
       THEN TRUE
       ELSE /\ pages[Len(pages)].NextPageToken # <<>>
            /\ host = pages[Len(pages)].host
            /\ limit = pages[Len(pages)].limit
    /\ LET pageToken == IF pages = <<>> THEN <<>>
                        ELSE pages[Len(pages)].NextPageToken
           list == ListTargets(targets, host, limit, pageToken)
       IN pages' = Append(pages,
              [host |-> host, limit |-> limit, pageToken |-> pageToken,
               Items |-> list.Items, NextPageToken |-> list.NextPageToken,
               rows |-> Len(targets)])
    /\ UNCHANGED <<checkerVars, targets, results, keys, clock, txs, calls, reply,
                 canon, database>>

\* The registry under registrations and one client listing it.
NextList ==
    \/ \E req \in ListRequests : PostTarget(req)
    \/ \E c \in DOMAIN txs : CreateTargetInsert(c)
    \/ \E host \in Hosts, limit \in Limits : ListPage(host, limit)

SpecList == InitStore /\ [][NextList]_vars

\* -------------------------------------------------------- listing claims
\* The items of the first n pages, in the order the client received them.
RECURSIVE Received(_)
Received(n) == IF n = 0 THEN <<>> ELSE Received(n - 1) \o pages[n].Items

\* The table as it was when page p was fetched (rows are never deleted).
TableAt(p) == SubSeq(targets, 1, pages[p].rows)

\* No target was inserted between the first page and the last one fetched.
QuietListing == \A p \in 1..Len(pages) : pages[p].rows = pages[1].rows

LastPage == pages[Len(pages)]

\* C15: following the next_page_tokens from the empty token enumerates every
\* target exactly once in (created_at, id) order, and the listing ends with
\* a page that carries no token, for every limit.
C15_PaginationEnumerates ==
    (pages # <<>> /\ pages[1].host = "" /\ QuietListing)
    => LET all == SortRows(Rows(TableAt(1)))
           seen == Received(Len(pages))
       IN /\ Len(seen) <= Len(all)
          /\ seen = SubSeq(all, 1, Len(seen))
          /\ LastPage.NextPageToken = <<>> <=> seen = all

\* The row t is at or below the cursor that the token of page p encodes
\* (the last item of page p).
AtOrBelowCursor(t, p) ==
    LET last == pages[p].Items[Len(pages[p].Items)]
    IN t = last \/ RowLess(t, last)

\* C16: with CreateTarget calls interleaved between the pages, no target at
\* or below the cursor of a returned token is returned again on a later page,
\* and a target inserted above that cursor before the next page is fetched
\* appears on a later page of the finished listing.
C16_StablePagination ==
    \A p, q \in 1..Len(pages) :
        (p < q /\ pages[1].host = "" /\ pages[q].rows > pages[p].rows)
        => /\ \A i \in 1..Len(pages[q].Items) :
                ~AtOrBelowCursor(pages[q].Items[i], p)
           /\ LastPage.NextPageToken = <<>>
                => \A k \in (pages[p].rows + 1)..pages[p + 1].rows :
                       ~AtOrBelowCursor(targets[k], p)
                       => \E r \in (p + 1)..Len(pages) :
                              targets[k] \in Rows(pages[r].Items)

\* url.Parse(canonical_url).Host: the host component of a canonical URL.
HostComponent(str) == str[3]

\* C17: ListTargets with host filter h returns exactly the targets whose
\* canonical_url has host lower(h), one with no path included.
C17_HostFilter ==
    \A p \in 1..Len(pages) :
        (pages[p].host # "" /\ pages[p].pageToken = <<>>
           /\ pages[p].NextPageToken = <<>>)
        => Rows(pages[p].Items) =
               {t \in Rows(TableAt(p)) :
                    HostComponent(t.CanonicalURL) = ToLower(pages[p].host)}

\* ------------------------------------------------- check_results, directly
\* models.CheckResult as a caller of the store builds it; latency_ms plays no
\* part in any query.
CheckResult(at, status) ==
    [checked_at |-> at, status_code |-> status, error |-> NilString]

\* The row of line 257.
ResultRow(targetID, result) ==
    [target_id |-> targetID, checked_at |-> result.checked_at,
     status_code |-> result.status_code, error |-> result.error]

\* Storage.SaveCheckResult(targetID, result), lines 255-261; the insert may
\* fail.
StorageSaveCheckResult(targetID, result) ==
    /\ Len(results) < MaxRows
    /\ \E ok \in database.answers :
         results' = IF ok THEN Append(results, ResultRow(targetID, result))
                    ELSE results
    /\ UNCHANGED <<checkerVars, targets, storeVars>>

\* WHERE target_id = ? [AND checked_at >= ?], lines 219-225: the rowids that
\* qualify; since is <<>> for the nil pointer, <<t>> otherwise.
Qualifying(table, targetID, since) ==
    {i \in 1..Len(table) :
        /\ table[i].target_id = targetID
        /\ since = <<>> \/ table[i].checked_at >= since[1]}

\* ORDER BY checked_at without DESC.
AscendingOrders(table, Q) ==
    {s \in [1..Cardinality(Q) -> Q] :
        /\ \A i, j \in DOMAIN s : i # j => s[i] # s[j]
        /\ \A i, j \in DOMAIN s :
               i < j => table[s[i]].checked_at <= table[s[j]].checked_at}

\* ORDER BY checked_at DESC, line 227: the orders in which the database may
\* deliver the rowids Q (rows with equal checked_at come in any order).
DescendingOrders(table, Q) ==
    {s \in [1..Cardinality(Q) -> Q] :
        /\ \A i, j \in DOMAIN s : i # j => s[i] # s[j]
        /\ \A i, j \in DOMAIN s :
               i < j => table[s[i]].checked_at >= table[s[j]].checked_at}

\* The models.CheckResult scanned from row i (lines 236-250); rowid is kept
\* beside it to tell which row an item came from.
Scanned(table, i) ==
    [rowid |-> i, checked_at |-> table[i].checked_at,
     status_code |-> table[i].status_code, error |-> table[i].error]

\* Handler.GetCheckResults, lines 119-153, over Storage.GetCheckResults,
\* lines 218-253: LIMIT keeps the first limit rows of the order.
GetCheckResults(targetID, since, limit) ==
    /\ \E order \in DescendingOrders(results, Qualifying(results, targetID, since)) :
         LET n == IF Len(order) < limit THEN Len(order) ELSE limit
         IN reply' = <<[target_id |-> targetID, since |-> since,
                        limit |-> limit, rows |-> Len(results),
                        Items |-> [i \in 1..n |-> Scanned(results, order[i])]]>>
    /\ UNCHANGED <<checkerVars, targets, results, keys, clock, txs, calls, pages,
                 canon, database>>

\* Two registered targets, as TestSaveAndGetCheckResults registers one before
\* it saves results.
Registered ==
    <<TargetRow(generateID(0), RawURL("https", "a.com", "", "", <<>>, ""),
                <<"https", "://", "a.com">>, 0),
      TargetRow(generateID(1), RawURL("https", "b.com", "", "/p", <<>>, ""),
                <<"https", "://", "b.com", "/", "p">>, 1)>>

InitResults ==
    /\ cancelled = FALSE
    /\ tick = FALSE
    /\ runPc = "idle"
    /\ cycle = 0
    /\ snapshot = <<>>
    /\ idx = 0
    /\ sem = [c \in 1..MaxCycles |-> 0]
    /\ wg = [c \in 1..MaxCycles |-> 0]
    /\ hostSems = <<>>
    /\ gates = <<>>
    /\ workers = <<>>
    /\ server = {}
    /\ targets = Registered
    /\ results = <<>>
    /\ StoreInit

Times == 0..MaxClock

NextResults ==
    \/ \E t \in Rows(targets), at \in Times :
           StorageSaveCheckResult(t.ID, CheckResult(at, 200))
    \/ \E t \in Rows(targets), limit \in 1..MaxRows,
          since \in {<<>>} \cup {<<at>> : at \in Times} :
           GetCheckResults(t.ID, since, limit)

SpecResults == InitResults /\ [][NextResults]_vars

\* The answer of the last GetCheckResults and the table it was read from.
Got == reply[1]
GotFrom == SubSeq(results, 1, Got.rows)

SystemRequests ==
    {Request(TRUE, RawURL("https", "a.com", "", Paths[i], <<>>, ""), "") :
        i \in 1..2}

InitSystem ==
    /\ cancelled = FALSE
    /\ tick = FALSE
    /\ runPc = "idle"
    /\ cycle = 0
    /\ snapshot = <<>>
    /\ idx = 0
    /\ sem = [c \in 1..MaxCycles |-> 0]
    /\ wg = [c \in 1..MaxCycles |-> 0]
    /\ hostSems = <<>>
    /\ gates = <<>>
    /\ workers = <<>>
    /\ server = SchedulerOutcomes
    /\ targets = <<>>
    /\ results = <<>>
    /\ StoreInit

\* Registrations made while the scheduler runs.
MaxRegistrations == 2

\* The registry holds at most MaxRegistrations targets, so the sem of a cycle
\* is never full and the dispatcher never blocks.
NextSystem ==
    \/ Cancel
    \/ Tick
    \/ Start
    \/ GetAllTargets
    \/ DispatchCancelled
    \/ DispatchSpawn
    \/ WaitDone
    \/ RunDone
    \/ RunTick
    \/ \E w \in Workers : GetHostSemaphoreFast(w)
    \/ \E w \in Workers : GetHostSemaphoreSlow(w)
    \/ \E w \in Workers : AcquireHostBlock(w)
    \/ \E w \in Workers : AcquireHostCancelled(w)
    \/ \E w \in Workers : AcquireHost(w)
    \/ \E w \in Workers : PerformRequest(w)
    \/ \E w \in Workers : PerformResponse(w)
    \/ \E w \in Workers : PerformBackoffCancelled(w)
    \/ \E w \in Workers : PerformBackoffTimer(w)
    \/ \E w \in Workers : SaveCheckResult(w)
    \/ \E w \in Workers : WorkerExit(w)
    \/ \E req \in SystemRequests : Begun < MaxRegistrations /\ PostTarget(req)
    \/ \E c \in DOMAIN txs : CreateTargetInsert(c)

SpecSystem == InitSystem /\ [][NextSystem]_vars

\* C19: every stored check result references an existing target, in every
\* state reached by the scheduler's cycles and the API's registrations
\* running concurrently.
C19_ResultsReferenceTargets ==
    \A i \in 1..Len(results) : ByID(results[i].target_id) # {}

\* The scheduler has stored a result for a target that was registered through
\* the API, while another registration is between its check and its insert.
C19_Witness ==
    /\ results # <<>>
    /\ txs # <<>>
    /\ \E i \in 1..Len(calls) :
           /\ calls[i].status = 201
           /\ calls[i].target.ID = results[1].target_id

\* A request the API must refuse: a body that is not JSON, an empty url, a
\* url that cannot be canonicalized (bad escape, no scheme), or a scheme
\* other than http and https.
InvalidRequest(a) ==
    \/ ~a.json
    \/ a.url = EmptyURL
    \/ a.url.path = BadPath
    \/ a.url.scheme = ""
    \/ ToLower(a.url.scheme) \notin {"http", "https"}

\* The answer a step appends to calls.
Answered == calls'[Len(calls')]

\* C20: POST /v1/targets answers 201 exactly when the store created a new
\* target and 200 when it returned an existing one; an invalid request (not
\* JSON, empty url, uncanonicalizable url, scheme other than http/https) is
\* answered 400 and leaves the store untouched: CreateTarget is not called.
C20_PostTargetStatus ==
    [][calls' # calls =>
        /\ Answered.status = 201
             <=> /\ Len(targets') = Len(targets) + 1
                 /\ targets'[Len(targets')].ID = Answered.target.ID
        /\ Answered.status = 200
             => /\ targets' = targets
                /\ Answered.target \in Rows(targets)
        /\ InvalidRequest(Answered)
             => /\ Answered.status = 400
                /\ UNCHANGED <<targets, keys, txs, clock>>
        /\ Answered.status = 400 => InvalidRequest(Answered)
    ]_vars

\* All three answers were given: 201 to a registration, 200 to a repeated
\* one, and 400 to an ftp URL.
C20_Witness ==
    /\ \E i \in 1..Len(calls) : calls[i].status = 201
    /\ \E i \in 1..Len(calls) : calls[i].status = 200 /\ ~calls[i].isNew
    /\ \E i \in 1..Len(calls) :
           calls[i].status = 400 /\ calls[i].url.scheme = "ftp"

\* ======================================================= the canonicalizer
\* Times CanonicalizeURL is applied in a row.
MaxApplications == 2

\* The first position of token tok in str; Len(str) + 1 when it is absent.
Index(str, tok) ==
    IF \E i \in 1..Len(str) : str[i] = tok
    THEN CHOOSE i \in 1..Len(str) :
             str[i] = tok /\ \A j \in 1..(i - 1) : str[j] # tok
    ELSE Len(str) + 1

\* url.Parse (line 274) on a string written by String: the fragment is cut
\* at the first "#", the query at the first "?", the port follows ":".
ParseString(str) ==
    LET hash == Index(str, "#")
        head == SubSeq(str, 1, hash - 1)
        mark == Index(head, "?")
        rest == SubSeq(head, 4, mark - 1)
        port == IF Len(rest) >= 2 /\ rest[1] = ":" THEN rest[2] ELSE ""
    IN RawURL(str[1], str[3], port,
              PathOf(IF port = "" THEN rest ELSE SubSeq(rest, 3, Len(rest))),
              SubSeq(head, mark + 1, Len(head)),
              IF hash < Len(str) THEN str[hash + 1] ELSE "")

\* The URLs handed to CanonicalizeURL: with and without a scheme, in either
\* case, with default and other ports, with zero to two trailing slashes,
\* with a query and a fragment.
CanonInputs ==
    {RawURL(scheme, host, port, path, query, fragment) :
        scheme \in {"https", "HTTPS", "http", ""},
        host \in {"a.com", "A.COM"},
        port \in {"", "80", "443", "8080"},
        path \in PathStrings \cup {BadPath},
        query \in {<<>>, <<"Q=1&b=%2F">>},
        fragment \in {"", "f"}}

InitCanon ==
    /\ cancelled = FALSE
    /\ tick = FALSE
    /\ runPc = "idle"
    /\ cycle = 0
    /\ snapshot = <<>>
    /\ idx = 0
    /\ sem = [c \in 1..MaxCycles |-> 0]
    /\ wg = [c \in 1..MaxCycles |-> 0]
    /\ hostSems = <<>>
    /\ gates = <<>>
    /\ workers = <<>>
    /\ server = {}
    /\ targets = <<>>
    /\ results = <<>>
    /\ keys = <<>>
    /\ clock = 0
    /\ txs = <<>>
    /\ calls = <<>>
    /\ pages = <<>>
    /\ reply = <<>>
    /\ database = [answers |-> BOOLEAN, rows |-> MaxResults,
                   refused |-> {}]
    /\ \E u \in CanonInputs : canon = [url |-> u, out |-> <<>>]

\* CanonicalizeURL applied to the URL, then to the string it returned.
Canonicalize ==
    /\ Len(canon.out) < MaxApplications
    /\ canon.out # <<>> => canon.out[Len(canon.out)].err = ""
    /\ canon' = [canon EXCEPT !.out =
            Append(@, CanonicalizeURL(
                IF canon.out = <<>> THEN canon.url
                ELSE ParseString(canon.out[Len(canon.out)].url)))]
    /\ UNCHANGED <<checkerVars, targets, results, keys, clock, txs, calls,
                   pages, reply, database>>

NextCanon == Canonicalize

SpecCanon == InitCanon /\ [][NextCanon]_vars

\* C21: for every URL that canonicalizes without error, canonicalizing the
\* canonical string succeeds and returns the same string, paths that end in
\* more than one slash included.
C21_Idempotent ==
    (Len(canon.out) >= 2 /\ canon.out[1].err = "") =>
        canon.out[2] = canon.out[1]

\* The port a scheme implies (lines 289-298).
DefaultPort(scheme) ==
    CASE scheme \in {"http", "HTTP"} -> "80"
      [] scheme \in {"https", "HTTPS"} -> "443"
      [] OTHER -> "none"

\* Two spellings that differ in letter case at most.
SameLetters(a, b) ==
    a = b \/ {a, b} \in {{"a.com", "A.COM"}, {"https", "HTTPS"}}

\* path is a non-root path without a trailing slash and longer is the same
\* path followed by one slash.
OneSlashMore(path, longer) ==
    /\ path \notin {"", "/"}
    /\ PathTokens(path)[Len(PathTokens(path))] # "/"
    /\ PathTokens(longer) = PathTokens(path) \o <<"/">>

\* u and v differ in nothing but the letter case of scheme and host, an
\* explicit default port, the fragment, and one trailing slash on a
\* non-root path.
Equivalent(u, v) ==
    /\ SameLetters(u.scheme, v.scheme)
    /\ SameLetters(u.host, v.host)
    /\ \/ u.port = v.port
       \/ {u.port, v.port} = {"", DefaultPort(u.scheme)}
    /\ \/ u.path = v.path
       \/ OneSlashMore(u.path, v.path)
       \/ OneSlashMore(v.path, u.path)
    /\ u.query = v.query

\* The canonical string ends in "?" and the query, or holds no "?" when
\* there is no query.
KeepsQuery(str, query) ==
    IF query = <<>> THEN \A i \in 1..Len(str) : str[i] # "?"
    ELSE /\ Len(str) > Len(query)
         /\ SubSeq(str, Len(str) - Len(query), Len(str)) = <<"?">> \o query

RootURLs ==
    {RawURL("https", "a.com", "", "", <<>>, ""),
     RawURL("https", "A.COM", "", "/", <<>>, "")}

RootRequests == {Request(TRUE, u, "") : u \in RootURLs}

NextRoot ==
    \/ \E req \in RootRequests : PostTarget(req)
    \/ \E c \in DOMAIN txs : CreateTargetInsert(c)

SpecRoot == InitStore /\ [][NextRoot]_vars

\* C23: a URL whose path is the root slash canonicalizes like the same URL
\* with an empty path, so when https://a.com has been registered (201) a
\* request for https://A.COM/ that the database does not fail has the same
\* canonical URL and is answered 200 with the id of the first.
C23_RootSlash ==
    \A i, j \in 1..Len(calls) :
        (/\ i < j
         /\ calls[i].url.path = "" /\ calls[i].status = 201
         /\ calls[j].url.path = "/" /\ calls[j].status # 500) =>
            /\ calls[j].canonical = calls[i].canonical
            /\ calls[j].status = 200
            /\ calls[j].target.ID = calls[i].target.ID

\* ============================================================ the probe
\* C24: an attempt fails with the redirect error only at its 6th redirect,
\* that is with 6 requests made (five redirects have been followed, so a
\* chain of exactly 5 reaches its final response); the redirect error is not
\* retried: it is the probe's last outcome, a first attempt that ends in it is
\* the only attempt, and the result has error present.
C24_Redirects ==
    \A w \in Workers :
        \A i \in 1..Len(workers[w].outcomes) :
            workers[w].outcomes[i] = Fail(RedirectError) =>
                /\ workers[w].via = 6
                /\ i = Len(workers[w].outcomes)
                /\ Returned(w)
                /\ i = 1 => workers[w].tries = 1
                /\ workers[w].error # NilString

\* C25: the sleeps of a probe are a prefix of 200ms, 400ms: none before the
\* first attempt, one before each later attempt, the first of 200ms and each
\* further one twice the one before.
C25_BackoffSchedule ==
    \A w \in Workers :
        LET s == workers[w].sleeps
        IN  /\ Len(s) <= 2
            /\ Len(s) >= 1 => s[1] = 200
            /\ \A i \in 2..Len(s) : s[i] = 2 * s[i - 1]
            /\ workers[w].tries = 0 => s = <<>>
            /\ workers[w].pc = "request" => Len(s) = workers[w].tries
            /\ (workers[w].pc # "request" /\ workers[w].tries >= 1) =>
                   Len(s) = workers[w].tries - 1

\* A probe has made three attempts and slept 200ms and 400ms between them.
C25_Witness ==
    \E w \in Workers :
        /\ Returned(w)
        /\ workers[w].tries = 3
        /\ workers[w].sleeps = <<200, 400>>

\* The probe of worker w ended on a response with a status below 500.
EndedBelow500(w) ==
    /\ workers[w].outcomes # <<>>
    /\ LET last == workers[w].outcomes[Len(workers[w].outcomes)]
       IN  last.kind = "resp" /\ last.code < 500

\* C26: every result performCheck returns, on the normal, the exhausted and
\* the cancelled path, has status_code or error present, and error is
\* absent exactly when the probe ended on a response with status below 500.
C26_ResultShape ==
    \A w \in Workers :
        Returned(w) =>
            /\ workers[w].status # 0 \/ workers[w].error # NilString
            /\ workers[w].error = NilString <=> EndedBelow500(w)

\* A probe cancelled in its backoff sleep has returned, and its result has
\* the error.
C26_Witness ==
    \E w \in Workers :
        /\ Returned(w)
        /\ cancelled
        /\ workers[w].outcomes = <<Resp(503)>>
        /\ workers[w].error = ContextCancelled

\* The goroutine of a performCheck that is called directly.
Direct == <<0, 1>>

\* C27: when ctx is already cancelled as performCheck begins, no HTTP request
\* is ever issued by that probe, and the result it returns has error present
\* and status_code absent.
C27_CancelledBeforeStart ==
    []((cancelled /\ workers[Direct].pc = "request" /\ workers[Direct].tries = 0)
        => [](/\ workers[Direct].requests = 0
              /\ Returned(Direct) =>
                     /\ workers[Direct].error # NilString
                     /\ workers[Direct].status = 0))

\* A probe has returned the context error of client.Do without having sent
\* a request.
C27_Witness ==
    /\ Returned(Direct)
    /\ workers[Direct].requests = 0
    /\ workers[Direct].outcomes = <<Fail(Canceled)>>
    /\ workers[Direct].error = ErrorString(UrlError(Canceled))

\* C28: the status_code of a result (of a probe not abandoned in a backoff
\* sleep) is the code of the response to the final attempt, and it is absent
\* when the final attempt got no response, as in a transport error after an
\* earlier 5xx.
C28_StatusOfFinalAttempt ==
    \A w \in Workers :
        (Returned(w) /\ workers[w].error # ContextCancelled) =>
            LET n == Len(workers[w].outcomes)
            IN  workers[w].status =
                    IF n > 0 /\ workers[w].outcomes[n].kind = "resp"
                    THEN workers[w].outcomes[n].code ELSE 0

\* C29: a probe abandoned in a backoff sleep because of cancellation has made
\* no attempt after that sleep, and its result has the error "context
\* cancelled" with status_code absent, whatever the earlier attempts
\* returned.
C29_CancelledInBackoff ==
    \A w \in Workers :
        (Returned(w) /\ workers[w].error = ContextCancelled) =>
            /\ Len(workers[w].sleeps) = workers[w].tries - 1
            /\ workers[w].status = 0

\* ===================================================== cancellable gates
\* C30: once ctx is cancelled, a worker blocked at its per-host gate has made
\* no attempt and can only leave checkTarget, without taking the gate and
\* without a row being written; and a dispatcher blocked at the global gate
\* for the next target can only return: it takes no slot and spawns no
\* worker.
C30_BlockedAbandons ==
    [][cancelled =>
         /\ \A w \in DOMAIN workers :
              workers[w].pc = "blocked" =>
                  /\ workers[w].tries = 0
                  /\ w \in DOMAIN workers'
                  /\ \/ workers'[w] = workers[w]
                     \/ /\ workers'[w] =
                               [workers[w] EXCEPT !.hostSem = 0, !.pc = "exit"]
                        /\ gates' = gates
                        /\ results' = results
         /\ runPc = "blocked" =>
                  /\ runPc' \in {"blocked", "select"}
                  /\ DOMAIN workers' \subseteq DOMAIN workers
                  /\ sem'[cycle] <= sem[cycle]]_vars

\* ctx has been cancelled while the dispatcher was blocked at the full global
\* gate and a worker was blocked at the gate of its host.
C30_Witness ==
    /\ cancelled
    /\ runPc = "blocked"
    /\ \E w \in Workers : workers[w].pc = "blocked"

\* ================================================= cycles over a live store
\* The service with a database that answers every statement and servers that
\* answer 200: the cycles in which every save succeeds, with clients
\* registering targets meanwhile.
InitCycle ==
    /\ cancelled = FALSE
    /\ tick = FALSE
    /\ runPc = "idle"
    /\ cycle = 0
    /\ snapshot = <<>>
    /\ idx = 0
    /\ sem = [c \in 1..MaxCycles |-> 0]
    /\ wg = [c \in 1..MaxCycles |-> 0]
    /\ hostSems = <<>>
    /\ gates = <<>>
    /\ workers = <<>>
    /\ server = {Resp(200)}
    /\ targets = <<>>
    /\ results = <<>>
    /\ keys = <<>>
    /\ clock = 0
    /\ txs = <<>>
    /\ calls = <<>>
    /\ pages = <<>>
    /\ reply = <<>>
    /\ canon = <<>>
    /\ database = [answers |-> {TRUE}, rows |-> MaxCycles * MaxRegistrations,
                   refused |-> {}]

\* The servers answer below 500, so no probe sleeps a backoff; the registry
\* holds at most MaxRegistrations targets, so the dispatcher never blocks.
NextCycle ==
    \/ Cancel
    \/ Tick
    \/ Start
    \/ GetAllTargets
    \/ DispatchCancelled
    \/ DispatchSpawn
    \/ WaitDone
    \/ RunDone
    \/ RunTick
    \/ \E w \in Workers : GetHostSemaphoreFast(w)
    \/ \E w \in Workers : GetHostSemaphoreSlow(w)
    \/ \E w \in Workers : AcquireHostBlock(w)
    \/ \E w \in Workers : AcquireHostCancelled(w)
    \/ \E w \in Workers : AcquireHost(w)
    \/ \E w \in Workers : PerformRequest(w)
    \/ \E w \in Workers : PerformResponse(w)
    \/ \E w \in Workers : SaveCheckResult(w)
    \/ \E w \in Workers : WorkerExit(w)
    \/ \E req \in SystemRequests : Begun < MaxRegistrations /\ PostTarget(req)
    \/ \E c \in DOMAIN txs : CreateTargetInsert(c)

SpecCycle == InitCycle /\ [][NextCycle]_vars

\* The rows written for target id by the workers of cycle c.
RowsOf(c, id) ==
    {j \in 1..Len(results) :
        results[j].checked_at = c /\ results[j].target_id = id}

\* The ids of the targets of the snapshot.
SnapshotIDs == {snapshot[i].ID : i \in 1..Len(snapshot)}

\* While ctx is not cancelled: the workers are those of the current cycle,
\* for targets of its snapshot; no target has two rows of one cycle and only
\* targets of the snapshot have a row of the current cycle; and when the last
\* worker of the cycle has ended every target of the snapshot has its row.
OneProbePerTarget ==
    ~cancelled =>
        /\ \A w \in Workers :
               /\ workers[w].cycle = cycle
               /\ workers[w].target.ID \in SnapshotIDs
               /\ w = <<cycle, workers[w].target.ID>>
        /\ \A j \in 1..Len(results) :
               /\ Cardinality(RowsOf(results[j].checked_at,
                                     results[j].target_id)) = 1
               /\ results[j].checked_at = cycle =>
                      results[j].target_id \in SnapshotIDs
        /\ (runPc = "wait" /\ wg[cycle] = 0) =>
               \A id \in SnapshotIDs : Cardinality(RowsOf(cycle, id)) = 1

\* The snapshot a cycle takes holds every target registered so far.
SnapshotIsRegistry ==
    (runPc = "cycle" /\ runPc' = "dispatch") => snapshot' = targets

\* C31: in a cycle that is not cancelled and whose saves all succeed, each
\* target of the snapshot is probed by one worker and gets one CheckResult;
\* a target registered after the snapshot is not probed in that cycle, and
\* is in the snapshot of the next.
C31_OneResultPerTarget ==
    /\ []OneProbePerTarget
    /\ [][SnapshotIsRegistry]_vars

\* The second cycle has ended with a row for each of its two targets, after
\* a first cycle that probed the only target registered when it began.
C31_Witness ==
    /\ ~cancelled
    /\ cycle = 2 /\ runPc = "wait" /\ wg[cycle] = 0
    /\ Len(snapshot) = 2
    /\ Len(results) = 3

\* ------------------------------------------------------ storage failures
\* C32: a cycle whose GetAllTargets fails starts no worker and writes no
\* result, and leaves the scheduler in the select of run, where a tick that
\* is taken starts the next cycle.
C32_SnapshotFailureSkipsCycle ==
    /\ [][(runPc = "cycle" /\ Len(targets) > 0
                /\ runPc' \notin {"cycle", "dispatch"}) =>
            /\ runPc' = "select"
            /\ workers' = workers
            /\ results' = results]_vars
    /\ []((runPc = "select" /\ tick /\ cycle < MaxCycles) => ENABLED RunTick)
    /\ [][(runPc = "select" /\ runPc' = "cycle") => cycle' = cycle + 1]_vars

\* The first cycle over a registry that holds targets is over without any
\* worker having run, and the second cycle has begun.
C32_Witness ==
    /\ ~cancelled
    /\ cycle = 2 /\ runPc = "cycle"
    /\ Len(targets) > 0
    /\ hostSems = <<>>
    /\ results = <<>>

\* ================================================================ progress
\* The steps of the program's goroutines: every step of Next but those of the
\* environment (the signal that cancels ctx, the ticker's clock).
Program ==
    \/ Start
    \/ GetAllTargets
    \/ DispatchCancelled
    \/ DispatchSpawn
    \/ DispatchBlock
    \/ DispatchGo
    \/ WaitDone
    \/ RunDone
    \/ RunTick
    \/ \E w \in Workers : GetHostSemaphoreFast(w)
    \/ \E w \in Workers : GetHostSemaphoreSlow(w)
    \/ \E w \in Workers : AcquireHostBlock(w)
    \/ \E w \in Workers : AcquireHostCancelled(w)
    \/ \E w \in Workers : AcquireHost(w)
    \/ \E w \in Workers : PerformRequest(w)
    \/ \E w \in Workers : PerformResponse(w)
    \/ \E w \in Workers : PerformBackoffCancelled(w)
    \/ \E w \in Workers : PerformBackoffTimer(w)
    \/ \E w \in Workers : SaveCheckResult(w)
    \/ \E w \in Workers : WorkerExit(w)

\* The Go scheduler runs a goroutine that can take a step, every HTTP
\* exchange ends, every timer fires and every storage call returns: a step
\* of the program that stays possible is taken.
SpecFair == Init /\ [][Next]_vars /\ WF_vars(Program)

\* checkAllTargets is between its snapshot and its return.
InCycle == runPc \in {"dispatch", "blocked", "spawn", "wait"}

\* ========================================================= cycles and gates
\* Registries whose targets meet at the host gates: three targets of one
\* host, targets whose URLs spell one host in several ways, and a target
\* whose URL does not parse.
Registries ==
    { [i \in 1..3 |-> [ID |-> i, URL |-> URL("https", "a.com", "", Paths[i])]],
      <<[ID |-> 1, URL |-> URL("https", "A.COM", "", "/1")],
        [ID |-> 2, URL |-> URL("https", "a.com", "443", "/2")],
        [ID |-> 3, URL |-> URL("https", "b.com", "", "/3")]>>,
      <<[ID |-> 1, URL |-> URL("https", "a.com", "", "/1")],
        [ID |-> 2, URL |-> URL("https", "a.com", "", BadPath)],
        [ID |-> 3, URL |-> URL("https", "a.com", "", "/3")]>> }

\* The service whose registry was empty in the cycles so far and holds one of
\* these registries now, before the tick of the last cycle followed; the
\* servers answer 200 and the database answers every statement but the
\* inserts of check results for at most one target.
InitGates ==
    /\ cancelled = FALSE
    /\ tick = FALSE
    /\ runPc = "select"
    /\ cycle = MaxCycles - 1
    /\ snapshot = <<>>
    /\ idx = 0
    /\ sem = [c \in 1..MaxCycles |-> 0]
    /\ wg = [c \in 1..MaxCycles |-> 0]
    /\ hostSems = <<>>
    /\ gates = <<>>
    /\ workers = <<>>
    /\ server = {Resp(200)}
    /\ targets \in Registries
    /\ results = <<>>
    /\ keys = <<>>
    /\ clock = 0
    /\ txs = <<>>
    /\ calls = <<>>
    /\ pages = <<>>
    /\ reply = <<>>
    /\ canon = <<>>
    /\ \E r \in {{}} \cup {{i} : i \in 1..3} :
         database = [answers |-> {TRUE}, rows |-> 3, refused |-> r]

\* The steps of the program's goroutines when no probe sleeps a backoff.
ProgramGates ==
    \/ GetAllTargets
    \/ DispatchCancelled
    \/ DispatchSpawn
    \/ DispatchBlock
    \/ DispatchGo
    \/ WaitDone
    \/ RunDone
    \/ RunTick
    \/ \E w \in Workers : GetHostSemaphoreFast(w)
    \/ \E w \in Workers : GetHostSemaphoreSlow(w)
    \/ \E w \in Workers : AcquireHostBlock(w)
    \/ \E w \in Workers : AcquireHostCancelled(w)
    \/ \E w \in Workers : AcquireHost(w)
    \/ \E w \in Workers : PerformRequest(w)
    \/ \E w \in Workers : PerformResponse(w)
    \/ \E w \in Workers : SaveCheckResult(w)
    \/ \E w \in Workers : WorkerExit(w)

NextGates ==
    \/ Cancel
    \/ Tick
    \/ ProgramGates

\* The Go scheduler runs a goroutine that can take a step, every HTTP
\* exchange ends and every storage call returns: a step of the program that
\* stays possible is taken.
SpecGates == InitGates /\ [][NextGates]_vars /\ WF_vars(ProgramGates)

\* The last cycle followed is over and ctx was not cancelled during it.
CycleOver == ~cancelled /\ runPc = "select" /\ cycle = MaxCycles

\* At the end of a cycle every target of the snapshot that can be probed
\* (its URL parses) but the refused one has its row of this cycle, and the
\* refused one has none.
SavedButRefused ==
    CycleOver =>
        \A i \in 1..Len(snapshot) :
            Cardinality(RowsOf(cycle, snapshot[i].ID)) =
                IF \/ snapshot[i].ID \in database.refused
                   \/ ~UrlParse(snapshot[i].URL).ok
                THEN 0 ELSE 1

\* C33: when the database fails SaveCheckResult for one target, the cycle
\* still completes, and at its end every other target of the snapshot has
\* been probed and has its result saved.
C33_SaveFailureKeepsCycle ==
    /\ []SavedButRefused
    /\ InCycle ~> ~InCycle

\* A cycle over three targets is over, the save of one of them failed and
\* the two others have their rows.
C33_Witness ==
    /\ CycleOver
    /\ database.refused # {}
    /\ Len(snapshot) = 3
    /\ \A i \in 1..3 : UrlParse(snapshot[i].URL).ok
    /\ Len(results) = 2

\* ============================================================ the gate map
\* Every worker that holds a gate for its host holds the gate the map has
\* for that host, and a gate holds at most one permit.
OneGatePerHost ==
    /\ \A w \in Workers :
         workers[w].hostSem # 0 =>
            /\ workers[w].host \in DOMAIN hostSems
            /\ hostSems[workers[w].host] = workers[w].hostSem
    /\ \A h \in DOMAIN hostSems : hostSems[h] \in 1..Len(gates)
    /\ \A g \in 1..Len(gates) : gates[g] \in {0, 1}

\* The map keeps every entry it has.
GateMapGrows ==
    /\ \A h \in DOMAIN hostSems :
         h \in DOMAIN hostSems' /\ hostSems'[h] = hostSems[h]
    /\ Len(gates') >= Len(gates)

\* C34: hostSems holds one gate of capacity 1 per host and never replaces or
\* removes one; every caller of getHostSemaphore(h) gets that gate, also the
\* callers that missed it in the read-locked lookup.
C34_OneGatePerHost == []OneGatePerHost /\ [][GateMapGrows]_vars

\* Two callers missed the gate of one host in the read-locked lookup; one
\* has installed it and holds it, the other is about to look again.
C34_Witness ==
    \E w, v \in Workers :
        /\ workers[w].pc = "create"
        /\ workers[v].hostSem # 0
        /\ workers[v].host = workers[w].host
        /\ workers[v].cycle = workers[w].cycle

\* ======================================================= the tables' rows
\* A time.Time: an instant of the clock and the offset of its location from
\* UTC, in units of the clock.
Time(instant, zone) == [instant |-> instant, zone |-> zone]
Zones == {0, 1}

\* The text the driver binds for a time.Time argument, layout
\* "2006-01-02 15:04:05.999999999-07:00": the wall clock reading in the
\* value's own location, then the offset.
FormatBound(t) == Itoa(t.instant + t.zone) \o <<"+">> \o Itoa(t.zone)

\* The cutoffs a caller may pass.
Cutoffs == {Time(i, z) : i \in 0..MaxClock, z \in Zones}

\* Storage.CleanupOldIdempotencyKeys(olderThan), lines 263-266:
\* DELETE FROM idempotency_keys WHERE created_at < ?; created_at holds the
\* text of now, a UTC time (line 61); the statement may fail.
CleanupOldIdempotencyKeys(olderThan) ==
    /\ keys # <<>>
    /\ \E ok \in database.answers :
         keys' = IF ok
                 THEN LET kept == {k \in DOMAIN keys :
                                     ~TextLess(FormatBound(Time(keys[k].created_at, 0)),
                                               FormatBound(olderThan))}
                      IN  [k \in kept |-> keys[k]]
                 ELSE keys
    /\ UNCHANGED <<checkerVars, targets, results, clock, txs, calls, pages,
                   reply, canon, database>>

\* Requests that carry an idempotency key.
KeyedRequests ==
    {Request(TRUE, u, k) :
        u \in {RawURL("https", "a.com", "", "", <<>>, ""),
               RawURL("https", "b.com", "", "/p/", <<>>, "")},
        k \in IdempotencyKeys}

\* The registry under POST /v1/targets requests and a maintenance task that
\* calls CleanupOldIdempotencyKeys.
NextCleanup ==
    \/ \E req \in KeyedRequests : PostTarget(req)
    \/ \E c \in DOMAIN txs : CreateTargetInsert(c)
    \/ \E olderThan \in Cutoffs : CleanupOldIdempotencyKeys(olderThan)

SpecCleanup == InitStore /\ [][NextCleanup]_vars

\* s is t or the beginning of t.
IsPrefix(s, t) == Len(s) <= Len(t) /\ SubSeq(t, 1, Len(s)) = s

\* The records a step removes were created before the cutoff.
RemovesOnlyOlder(olderThan) ==
    \A k \in DOMAIN keys \ DOMAIN keys' : keys[k].created_at < olderThan.instant

\* C35: every step leaves the rows that targets and check_results hold as
\* they are, and a step of CleanupOldIdempotencyKeys(olderThan) removes only
\* idempotency records created before olderThan.
C35_AppendOnly ==
    [][/\ IsPrefix(targets, targets')
       /\ IsPrefix(results, results')
       /\ \A olderThan \in Cutoffs :
            CleanupOldIdempotencyKeys(olderThan) => RemovesOnlyOlder(olderThan)]_vars

\* ================================================================ shutdown
\* C36: once ctx is cancelled the scheduler goroutine starts no further
\* cycle, and it eventually returns from run.
C36_StopsAfterCancel ==
    /\ [][cancelled => ~(runPc = "select" /\ runPc' = "cycle")]_vars
    /\ cancelled ~> (runPc = "stopped")

\* ================================================================= permits
\* The workers that hold the gate of their host: those past the select of
\* lines 121-127 whose deferred <-hostSem has not run.
Holders(g) ==
    {w \in Workers : workers[w].hostSem = g
                     /\ workers[w].pc \notin {"acquire", "blocked"}}

\* The goroutines that hold a slot of the sem of cycle c: its workers, and
\* the dispatcher between its send on sem and the go statement.
SlotsHeld(c) ==
    Cardinality({w \in Workers : workers[w].cycle = c})
        + (IF runPc = "spawn" /\ cycle = c THEN 1 ELSE 0)

\* Every permit taken is held by a goroutine that will give it back.
PermitsAreHeld ==
    /\ \A g \in 1..Len(gates) : gates[g] = Cardinality(Holders(g))
    /\ \A c \in 1..MaxCycles : sem[c] = SlotsHeld(c)

\* C37: no permit is leaked: on every path through a worker the slot of sem
\* is given back and the host gate is given back exactly when it was taken,
\* so when all workers have finished every gate and every slot is free.
C37_NoPermitLeaked ==
    /\ PermitsAreHeld
    /\ (Workers = {} /\ runPc # "spawn") =>
          /\ \A g \in 1..Len(gates) : gates[g] = 0
          /\ \A c \in 1..MaxCycles : sem[c] = 0

\* A cycle is over in which one worker could not parse its URL, one could
\* not save its result and one saved it; no worker is left.
C37_Witness ==
    /\ CycleOver
    /\ Workers = {}
    /\ \E i \in 1..Len(snapshot) : ~UrlParse(snapshot[i].URL).ok
    /\ \E i \in 1..Len(snapshot) :
         snapshot[i].ID \in database.refused /\ UrlParse(snapshot[i].URL).ok
    /\ Len(results) = 1
    /\ Len(gates) > 0

\* ================================================================ deadlock
\* While a cycle is under way or a worker lives, some goroutine can take a
\* step.
NeverStuck == (InCycle \/ Workers # {}) => ENABLED ProgramGates

\* C38: the sem of a cycle and the host gates never deadlock: under fair
\* scheduling every worker ends and every cycle completes, also a cycle over
\* more than MaxConcurrency targets of one host.
C38_NoDeadlock ==
    /\ []NeverStuck
    /\ (Workers # {}) ~> (Workers = {})
    /\ InCycle ~> (runPc \in {"select", "stopped"})

\* Three targets share a host and MaxConcurrency is smaller: the dispatcher
\* waits for a slot of sem while one worker holds the host gate and another
\* waits for it.
C38_Witness ==
    /\ ~cancelled
    /\ Len(snapshot) > MaxConcurrency
    /\ \A i \in 1..Len(snapshot) :
         UrlParse(snapshot[i].URL) = UrlParse(snapshot[1].URL)
    /\ runPc = "blocked"
    /\ \E w, v \in Workers :
         /\ workers[w].pc = "blocked"
         /\ v \in Holders(workers[w].hostSem)

\* ========================================================== host spellings
\* The port a URL names, the default port of its scheme when it names none.
PortOf(u) == IF u.port = "" THEN DefaultPort(u.scheme) ELSE u.port

\* Two URLs name one host: the same host name up to letter case, on the
\* same port.
SameHost(u1, u2) == SameLetters(u1.host, u2.host) /\ PortOf(u1) = PortOf(u2)

\* C40: two targets whose URLs name one host, however they spell it, are
\* never probed at the same time.
C40_SpellingsShareGate ==
    \A w1 \in Workers : \A w2 \in Workers :
        (w1 # w2 /\ InProbe(w1) /\ InProbe(w2))
            => ~SameHost(workers[w1].target.URL, workers[w2].target.URL)

\* C40, as the code has it: the gate of a target is that of the host of its
\* URL as written (url.Parse(target.URL).Host, letter case and port kept).
\* Two workers have the same gate exactly when these strings are equal, and
\* no two workers of one gate probe at the same time; two spellings of one
\* host have two gates.
C40_GatePerHostString ==
    \A w1 \in Workers : \A w2 \in Workers :
        (w1 # w2 /\ workers[w1].hostSem # 0 /\ workers[w2].hostSem # 0) =>
            /\ workers[w1].hostSem = workers[w2].hostSem
                  <=> HostOf(w1) = HostOf(w2)
            /\ (InProbe(w1) /\ InProbe(w2))
                  => workers[w1].hostSem # workers[w2].hostSem

\* Targets https://A.COM/1 and https://a.com:443/2 are probed at the same
\* time, each under its own gate.
C40_Witness ==
    \E w1 \in Workers : \E w2 \in Workers :
        /\ InProbe(w1) /\ InProbe(w2)
        /\ HostOf(w1) # HostOf(w2)
        /\ SameHost(workers[w1].target.URL, workers[w2].target.URL)
        /\ workers[w1].hostSem # workers[w2].hostSem

\* ========================================================== all or nothing
\* The step answers a request with the error of Storage.CreateTarget.
AnswersError ==
    /\ Len(calls') = Len(calls) + 1
    /\ calls'[Len(calls')].status = 500

\* C39: a call of CreateTarget that returns an error stores neither a target
\* nor an idempotency record.
C39_AllOrNothing ==
    [][AnswersError => (targets' = targets /\ keys' = keys)]_vars

\* A call failed whose URL is not registered and whose idempotency key is
\* recorded for the target of another URL.
C39_Witness ==
    \E j \in 1..Len(calls) :
        /\ calls[j].status = 500
        /\ calls[j].key \in DOMAIN keys
        /\ ByCanonical(calls[j].canonical) = {}
        /\ \A t \in Rows(targets) : t.URL # calls[j].url

====
